---- MODULE Spec2Model ----
(***************************************************************************)
(* Lowering of ast::Expr / ast::Pat into hir_def Body + BodySourceMap      *)
(* (crates/ra_hir_def/src/body/lower.rs).                                   *)
(*                                                                         *)
(* ExprCollector is a recursive descent.  It is modelled as a machine with *)
(* an explicit call stack: one frame per active collect_expr / collect_pat *)
(* call, holding the call's locals (vals) and its position (pc) in the     *)
(* straight-line code of the match arm it is executing.  The syntax tree   *)
(* is the input: each child is drawn when the code asks for it, and is     *)
(* recorded in the history variable ast.                                   *)
(*                                                                         *)
(* The console test runner (library/test/src/console.rs) is a second,      *)
(* independent machine over the variables st, fail_fast, out and run: the  *)
(* events that run_tests sends to on_test_event, then the end of the run.  *)
(***************************************************************************)
EXTENDS Integers, Sequences, FiniteSets, TLC

\* ------------------------------------------------------------------ bounds
\* ast::Expr and ast::Pat nodes in one input (carrier nodes such as match
\* arms, statements, fields and params are bounded by MaxList instead)
MaxNodes == 3
\* elements of one syntactic list (args, arms, statements, fields, params)
MaxList == 2
\* items declared directly in one block
MaxItems == 1
\* nested expansions the expander allows (its recursion limit)
ExpansionLimit == 2
\* nested expansions followed at all
MaxDepth == 3
\* calls of the output formatter in one run of the console test runner
MaxEvents == 3
\* tests of one run
MaxTests == 2

\* ------------------------------------------------------------------ values
None == <<>>
Some(x) == <<x>>

\* Err(SyntheticSyntax) / Ok(src) of Result<ExprSource, SyntheticSyntax>
SyntheticSyntax == "SyntheticSyntax"
Err(e) == [ok |-> FALSE, err |-> e]
Ok(src) == [ok |-> TRUE, src |-> src]

\* Either::Left(ptr) / Either::Right(ptr); AstPtr::new(node) is the node's identity
Left(ptr) == [either |-> "Left", ptr |-> ptr]
Right(ptr) == [either |-> "Right", ptr |-> ptr]

\* the id of no node: dummy_expr_id() is ExprId(!0)
dummy_expr_id == 0 - 1

EmptyMap == [x \in {} |-> 0]
MapInsert(m, k, v) == [x \in (DOMAIN m) \cup {k} |-> IF x = k THEN v ELSE m[x]]

\* Arena<T>: ids are handed out from 0 in allocation order
NextId(arena) == Len(arena)
ArenaGet(arena, id) == arena[id + 1]
ArenaIds(arena) == 0 .. (Len(arena) - 1)

VARIABLES
    exprs,          \* body.exprs : Arena<Expr>
    pats,           \* body.pats : Arena<Pat>
    body,           \* body.params and body.body_expr
    item_scope,     \* body.item_scope
    expr_map,       \* source_map.expr_map : ExprSource -> ExprId
    expr_map_back,  \* source_map.expr_map_back : ExprId -> Result<ExprSource, SyntheticSyntax>
    pat_map,        \* source_map.pat_map
    pat_map_back,   \* source_map.pat_map_back
    field_map,      \* source_map.field_map : (ExprId, usize) -> AstPtr<RecordField>
    expansions,     \* source_map.expansions : InFile<AstPtr<MacroCall>> -> HirFileId
    expander,       \* the Expander: current_file_id, files handed out, expansion depth
    stack,          \* active collect_* calls, innermost last
    status,         \* "running" | "done" (lower returned) | "panicked"
    ast,            \* history: the syntax nodes met so far, in the order met
    ret,            \* history: ret[n] is what the call lowering node n returned
    none_ret,       \* history: the ids returned by collect_*_opt(None)
    resolved,       \* history: the identifier patterns resolve_path was asked about
    st,             \* run_tests_console: the ConsoleTestState
    fail_fast,      \* opts.fail_fast
    out,            \* what the OutputFormatter was asked to write, in order
    run             \* run_tests_console: "running" (inside run_tests) | "finished" |
                    \* "panicked" (the assertion) | "io error" | "io error at finish"

\* the state of lowering a body, and the state of the console test runner
lowering == <<exprs, pats, body, item_scope, expr_map, expr_map_back, pat_map, pat_map_back,
              field_map, expansions, expander, stack, status, ast, ret, none_ret, resolved>>
console == <<st, fail_fast, out, run>>

vars == <<lowering, console>>

arenas == <<exprs, pats, expr_map, expr_map_back, pat_map, pat_map_back>>
expr_side == <<exprs, expr_map, expr_map_back>>
pat_side == <<pats, pat_map, pat_map_back>>

\* ------------------------------------------------------------------ Expander
\* InFile::new(self.current_file_id, ptr)
to_source(ptr) == [file_id |-> expander.current_file_id, value |-> ptr]

\* ------------------------------------------------------------------ allocation
\* make_expr without its expr_map_back.insert
make_expr_unrecorded(expr, src) ==
    /\ exprs' = Append(exprs, expr)
    /\ expr_map_back' = expr_map_back

\* make_expr that writes over the node allocated last instead of adding one
make_expr_in_place(expr, src) ==
    /\ exprs' = IF exprs = <<>> THEN <<expr>> ELSE [exprs EXCEPT ![Len(exprs)] = expr]
    /\ expr_map_back' = MapInsert(expr_map_back, Len(exprs') - 1, src)

make_expr(expr, src) ==
    /\ exprs' = Append(exprs, expr)
    /\ expr_map_back' = MapInsert(expr_map_back, NextId(exprs), src)

\* alloc_expr that drops the location it was given
alloc_expr_unlocated(expr, ptr) ==
    /\ make_expr(expr, Err(SyntheticSyntax))
    /\ UNCHANGED expr_map

alloc_expr(expr, ptr) ==
    LET src == to_source(Left(ptr)) IN
    /\ make_expr(expr, Ok(src))
    /\ expr_map' = MapInsert(expr_map, src, NextId(exprs))

alloc_expr_desugared(expr) ==
    /\ make_expr(expr, Err(SyntheticSyntax))
    /\ UNCHANGED expr_map

alloc_expr_field_shorthand(expr, ptr) ==
    LET src == to_source(Right(ptr)) IN
    /\ make_expr(expr, Ok(src))
    /\ expr_map' = MapInsert(expr_map, src, NextId(exprs))

empty_block == alloc_expr_desugared([tag |-> "Block", statements |-> <<>>, tail |-> None])

\* missing_expr that also records a forward entry for its node
missing_expr_located ==
    /\ make_expr([tag |-> "Missing"], Err(SyntheticSyntax))
    /\ expr_map' = MapInsert(expr_map, to_source(Left(0)), NextId(exprs))

missing_expr == alloc_expr_desugared([tag |-> "Missing"])

make_pat(pat, src) ==
    /\ pats' = Append(pats, pat)
    /\ pat_map_back' = MapInsert(pat_map_back, NextId(pats), src)

\* alloc_pat without its pat_map.insert
alloc_pat_unmapped(pat, ptr) ==
    /\ make_pat(pat, Ok(to_source(ptr)))
    /\ UNCHANGED pat_map

alloc_pat(pat, ptr) ==
    LET src == to_source(ptr) IN
    /\ make_pat(pat, Ok(src))
    /\ pat_map' = MapInsert(pat_map, src, NextId(pats))

missing_pat ==
    /\ make_pat([tag |-> "Missing"], Err(SyntheticSyntax))
    /\ UNCHANGED pat_map


\* ------------------------------------------------------------------ syntax
\* A syntax node as drawn from the input: its kind, the variant of the kind that
\* the code branches on (v), and for an identifier pattern its name and what
\* the name resolves to in the value namespace of the module.
Node(kind, v) == [kind |-> kind, v |-> v, name |-> "", res |-> ""]
Ident(v, name, res) == [kind |-> "BindPat", v |-> v, name |-> name, res |-> res]

\* nodes that are neither ast::Expr nor ast::Pat
Carriers == {"MatchArm", "LetStmt", "ExprStmt", "RecordField", "Param", "LambdaParam",
             "RecordFieldPat", "SelfParam", "LiteralToken", "Collect"}

\* ast::ModuleItem
ItemKinds == {"FnDef", "TypeAliasDef", "ConstDef", "StaticDef", "StructDef", "EnumDef",
              "UnionDef", "TraitDef", "ExternBlock", "ImplDef", "UseItem", "ExternCrateItem",
              "Module", "MacroCallItem"}

\* One step of a match arm of collect_expr / collect_pat:
\*   opt   collect_expr_opt / collect_block_opt / collect_pat_opt of a child
\*   map   child.map(|it| self.collect_*(it))
\*   req   self.collect_*(child) of a child the arm has in hand
\*   list  children.map(|it| self.collect_*(it)).collect()
\* `to` is the local that receives the result, `arg` the class of the child
\* or the node to build.
Op(op, to, arg) == [op |-> op, to |-> to, arg |-> arg]

IfExprProg(v) ==
    <<Op("opt", "then_branch", "block"), Op("map", "else_branch", "else")>> \o
    CASE v = "nocond" -> <<Op("missing_expr", "condition", ""), Op("alloc_expr", "", "If")>>
      [] v = "cond" -> <<Op("opt", "condition", "expr"), Op("alloc_expr", "", "If")>>
      [] v = "let" -> <<Op("req", "pat", "pat"),
                        Op("opt", "match_expr", "expr"),
                        Op("missing_pat", "placeholder_pat", ""),
                        Op("unwrap_or_empty_block", "else_expr", "else_branch"),
                        Op("alloc_expr", "", "IfLetMatch")>>

WhileExprProg(v) ==
    <<Op("opt", "body", "block")>> \o
    CASE v = "nocond" -> <<Op("missing_expr", "condition", ""), Op("alloc_expr", "", "While")>>
      [] v = "cond" -> <<Op("opt", "condition", "expr"), Op("alloc_expr", "", "While")>>
      [] v = "let" -> <<Op("req", "pat", "pat"),
                        Op("opt", "match_expr", "expr"),
                        Op("missing_pat", "placeholder_pat", ""),
                        Op("desugared", "break_", "BreakNone"),
                        Op("desugared", "match", "WhileLetMatch"),
                        Op("alloc_expr", "", "WhileLetLoop")>>

\* a block whose items are collected after its statements and tail
BlockExprProgItemsLate(v) ==
    IF v = "noblock" THEN <<Op("alloc_expr", "", "Missing")>>
    ELSE <<Op("list", "statements", "stmt"),
           Op("map", "tail", "expr"),
           Op("block_items", "", ""),
           Op("alloc_expr", "", "Block")>>

BlockExprProg(v) ==
    IF v = "noblock" THEN <<Op("alloc_expr", "", "Missing")>>
    ELSE <<Op("block_items", "", ""),
           Op("list", "statements", "stmt"),
           Op("map", "tail", "expr"),
           Op("alloc_expr", "", "Block")>>

LetStmtProg == <<Op("opt", "pat", "pat"), Op("map", "initializer", "expr"), Op("yield", "", "Let")>>
ExprStmtProg == <<Op("opt", "expr", "expr"), Op("yield", "", "ExprStmt")>>

MatchExprProg == <<Op("opt", "expr", "expr"), Op("list", "arms", "arm"), Op("alloc_expr", "", "Match")>>
MatchArmProg ==
    <<Op("opt", "pat", "pat"), Op("opt", "expr", "expr"), Op("map", "guard", "expr"),
      Op("yield", "", "MatchArm")>>

\* a ParenExpr arm that returns the inner id and records nothing
ParenExprUnrecorded == <<Op("opt", "inner", "expr"), Op("return", "", "inner")>>

ParenExprProg == <<Op("opt", "inner", "expr"), Op("paren_expr", "", "inner")>>

RecordLitProg(v) ==
    IF v = "nofields" THEN <<Op("alloc_record_lit", "", "RecordLitEmpty")>>
    ELSE <<Op("list", "fields", "field"),
           Op("map", "spread", "expr"),
           Op("alloc_record_lit", "", "RecordLit")>>

RecordFieldProg(v) ==
    CASE v = "disabled" -> <<Op("yield", "", "Nothing")>>
      [] v = "expr" -> <<Op("req", "expr", "expr"), Op("yield", "", "RecordLitField")>>
      [] v = "shorthand" -> <<Op("shorthand", "expr", ""), Op("yield", "", "RecordLitField")>>
      [] v = "noname" -> <<Op("missing_expr", "expr", ""), Op("yield", "", "RecordLitField")>>

LambdaExprProg ==
    <<Op("list", "args", "lparam"), Op("opt", "body", "expr"), Op("alloc_expr", "", "Lambda")>>
LambdaParamProg == <<Op("opt", "pat", "pat"), Op("yield", "", "Id")>>

\* a MacroCall arm that returns the id of the expansion without expander.exit
MacroCallProgNoExit(v) ==
    CASE v = "def" -> <<Op("macro_def", "", "Missing")>>
      [] v = "fail" -> <<Op("enter_expand", "mark", "Missing")>>
      [] v = "expand" -> <<Op("enter_expand", "mark", "Missing"),
                           Op("req", "id", "expr"),
                           Op("return", "", "id")>>
      [] v = "rec" -> <<Op("enter_expand", "mark", "Missing"),
                        Op("self", "id", "expr"),
                        Op("return", "", "id")>>

MacroCallProg(v) ==
    CASE v = "def" -> <<Op("macro_def", "", "Missing")>>
      [] v = "fail" -> <<Op("enter_expand", "mark", "Missing")>>
      [] v = "expand" -> <<Op("enter_expand", "mark", "Missing"),
                           Op("req", "id", "expr"),
                           Op("exit", "", "id")>>
      \* a call of a macro whose expansion is a call of the same macro
      [] v = "rec" -> <<Op("enter_expand", "mark", "Missing"),
                        Op("self", "id", "expr"),
                        Op("exit", "", "id")>>

\* arms whose whole body is: lower the children in order, allocate one node
OneChild == {"TryBlockExpr", "LoopExpr", "FieldExpr", "AwaitExpr", "TryExpr", "CastExpr",
             "RefExpr", "BoxExpr", "PrefixExpr"}
TwoChildren == {"BinExpr", "IndexExpr"}
Leaves == {"PathExpr", "ContinueExpr", "Literal", "Label"}

ExprTag(kind, v) ==
    CASE kind = "TryBlockExpr" -> "TryBlock"
      [] kind = "LoopExpr" -> "Loop"
      [] kind = "ForExpr" -> "For"
      [] kind = "CallExpr" -> "Call"
      [] kind = "MethodCallExpr" -> "MethodCall"
      [] kind = "PathExpr" -> IF v = "ok" THEN "Path" ELSE "Missing"
      [] kind = "ContinueExpr" -> "Continue"
      [] kind = "BreakExpr" -> "Break"
      [] kind = "ReturnExpr" -> "Return"
      [] kind = "FieldExpr" -> "Field"
      [] kind = "AwaitExpr" -> "Await"
      [] kind = "TryExpr" -> "Try"
      [] kind = "CastExpr" -> "Cast"
      [] kind = "RefExpr" -> "Ref"
      [] kind = "PrefixExpr" -> IF v = "op" THEN "UnaryOp" ELSE "Missing"
      [] kind = "BinExpr" -> "BinaryOp"
      [] kind = "TupleExpr" -> "Tuple"
      [] kind = "BoxExpr" -> "Box"
      [] kind = "ArrayExpr" -> IF v = "list" THEN "ArrayElementList" ELSE "ArrayRepeat"
      [] kind = "Literal" -> "Literal"
      [] kind = "IndexExpr" -> "Index"
      [] kind = "RangeExpr" -> IF v = "op" THEN "Range" ELSE "Missing"
      [] kind = "Label" -> "Missing"

\* a range whose absent ends are lowered to placeholders
RangeExprProgPlaceholders(v) ==
    <<Op("opt", "lhs", "expr"), Op("opt", "rhs", "expr"),
      Op("alloc_expr", "", ExprTag("RangeExpr", v))>>

\* ast::Expr::RangeExpr
RangeExprProg(v) ==
    <<Op("map", "lhs", "expr"), Op("map", "rhs", "expr"),
      Op("alloc_expr", "", ExprTag("RangeExpr", v))>>

ExprProg(kind, v) ==
    CASE kind = "IfExpr" -> IfExprProg(v)
      [] kind = "WhileExpr" -> WhileExprProg(v)
      [] kind = "BlockExpr" -> BlockExprProg(v)
      [] kind = "MatchExpr" -> MatchExprProg
      [] kind = "ParenExpr" -> ParenExprProg
      [] kind = "RecordLit" -> RecordLitProg(v)
      [] kind = "LambdaExpr" -> LambdaExprProg
      [] kind = "MacroCall" -> MacroCallProg(v)
      [] kind = "TryBlockExpr" \/ kind = "LoopExpr" ->
            <<Op("opt", "body", "block"), Op("alloc_expr", "", ExprTag(kind, v))>>
      [] kind = "ForExpr" ->
            <<Op("opt", "iterable", "expr"), Op("opt", "pat", "pat"), Op("opt", "body", "block"),
              Op("alloc_expr", "", "For")>>
      [] kind = "CallExpr" ->
            <<Op("opt", "callee", "expr"), Op("list", "args", "expr"), Op("alloc_expr", "", "Call")>>
      [] kind = "MethodCallExpr" ->
            <<Op("opt", "receiver", "expr"), Op("list", "args", "expr"),
              Op("alloc_expr", "", "MethodCall")>>
      [] kind \in Leaves -> <<Op("alloc_expr", "", ExprTag(kind, v))>>
      [] kind = "BreakExpr" \/ kind = "ReturnExpr" ->
            <<Op("map", "expr", "expr"), Op("alloc_expr", "", ExprTag(kind, v))>>
      [] kind \in OneChild \ {"TryBlockExpr", "LoopExpr"} ->
            <<Op("opt", "expr", "expr"), Op("alloc_expr", "", ExprTag(kind, v))>>
      [] kind = "BinExpr" ->
            <<Op("opt", "lhs", "expr"), Op("opt", "rhs", "expr"), Op("alloc_expr", "", "BinaryOp")>>
      [] kind = "IndexExpr" ->
            <<Op("opt", "base", "expr"), Op("opt", "index", "expr"), Op("alloc_expr", "", "Index")>>
      [] kind = "TupleExpr" -> <<Op("list", "exprs", "expr"), Op("alloc_expr", "", "Tuple")>>
      [] kind = "ArrayExpr" ->
            IF v = "list"
            THEN <<Op("list", "exprs", "expr"), Op("alloc_expr", "", "ArrayElementList")>>
            ELSE <<Op("opt", "initializer", "expr"), Op("opt", "repeat", "expr"),
                   Op("alloc_expr", "", "ArrayRepeat")>>
      [] kind = "RangeExpr" -> RangeExprProg(v)

\* ------------------------------------------------------------------ patterns
BindPatProg == <<Op("map", "subpat", "pat"), Op("alloc_pat", "", "Bind")>>

\* a parenthesized pattern that gets a node of its own
ParenPatProgAllocated == <<Op("opt", "inner", "pat"), Op("alloc_pat", "", "Missing")>>

\* ast::Pat::ParenPat
ParenPatProg == <<Op("opt", "inner", "pat"), Op("return", "", "inner")>>

RecordPatProg(v) ==
    IF v = "nolist" THEN <<Op("expect", "", "every struct should have a field list")>>
    ELSE <<Op("list", "fields", "bind_pat"),
           Op("list", "fields", "field_pat"),
           Op("alloc_pat", "", "Record")>>

RecordFieldPatProg(v) ==
    CASE v = "nopat" -> <<Op("yield", "", "Nothing")>>
      [] v = "noname" -> <<Op("req", "pat", "pat"), Op("yield", "", "Nothing")>>
      [] v = "full" -> <<Op("req", "pat", "pat"), Op("yield", "", "RecordFieldPat")>>

LiteralPatProg(v) ==
    IF v = "lit" THEN <<Op("alloc_literal", "expr_id", ""), Op("alloc_pat", "", "Lit")>>
    ELSE <<Op("alloc_pat", "", "Missing")>>

PatProg(kind, v) ==
    CASE kind = "BindPat" -> BindPatProg
      [] kind = "TupleStructPat" -> <<Op("list", "args", "pat"), Op("alloc_pat", "", "TupleStruct")>>
      [] kind = "RefPat" -> <<Op("opt", "pat", "pat"), Op("alloc_pat", "", "Ref")>>
      [] kind = "PathPat" -> <<Op("alloc_pat", "", IF v = "ok" THEN "Path" ELSE "Missing")>>
      [] kind = "OrPat" -> <<Op("list", "pats", "pat"), Op("alloc_pat", "", "Or")>>
      [] kind = "ParenPat" -> ParenPatProg
      [] kind = "TuplePat" -> <<Op("list", "args", "pat"), Op("alloc_pat", "", "Tuple")>>
      [] kind = "PlaceholderPat" \/ kind = "DotDotPat" -> <<Op("alloc_pat", "", "Wild")>>
      [] kind = "RecordPat" -> RecordPatProg(v)
      [] kind = "SlicePat" ->
            <<Op("list", "prefix", "pat"), Op("map", "slice", "pat"), Op("list", "suffix", "pat"),
              Op("alloc_pat", "", "Slice")>>
      [] kind = "LiteralPat" -> LiteralPatProg(v)
      [] kind = "BoxPat" \/ kind = "RangePat" \/ kind = "MacroPat" ->
            <<Op("alloc_pat", "", "Missing")>>

PatKinds == {"BindPat", "TupleStructPat", "RefPat", "PathPat", "OrPat", "ParenPat", "TuplePat",
             "PlaceholderPat", "DotDotPat", "RecordPat", "SlicePat", "LiteralPat", "BoxPat",
             "RangePat", "MacroPat"}

\* collect(param_list, body)
CollectProg(v) ==
    (IF v = "self" THEN <<Op("self_param", "params", "")>> ELSE <<>>) \o
    (IF v = "none" THEN <<>> ELSE <<Op("list", "params", "param")>>) \o
    <<Op("opt", "body_expr", "expr")>>

\* a parameter without pattern that gets a placeholder pattern
ParamProgPlaceholder(v) ==
    IF v = "nopat" THEN <<Op("missing_pat", "pat", ""), Op("yield", "", "Id")>>
    ELSE <<Op("req", "pat", "pat"), Op("yield", "", "Id")>>

\* for param in param_list.params()
ParamProg(v) ==
    IF v = "nopat" THEN <<Op("yield", "", "Nothing")>>
    ELSE <<Op("req", "pat", "pat"), Op("yield", "", "Id")>>

Prog(kind, v) ==
    CASE kind = "Collect" -> CollectProg(v)
      [] kind = "Param" -> ParamProg(v)
      [] kind = "LetStmt" -> LetStmtProg
      [] kind = "ExprStmt" -> ExprStmtProg
      [] kind = "MatchArm" -> MatchArmProg
      [] kind = "RecordField" -> RecordFieldProg(v)
      [] kind = "LambdaParam" -> LambdaParamProg
      [] kind = "RecordFieldPat" -> RecordFieldPatProg(v)
      [] kind \in PatKinds -> PatProg(kind, v)
      [] OTHER -> ExprProg(kind, v)

\* the locals of a call, all unset
Locals(prog) == [n \in {prog[i].to : i \in DOMAIN prog} \cup {"field_ptrs"} |-> <<>>]

Frame(node, kind, v) ==
    [node |-> node, kind |-> kind, v |-> v, pc |-> 1, cnt |-> 0, vals |-> Locals(Prog(kind, v))]

\* ------------------------------------------------------------------ nodes
\* a MatchArm whose expr was never lowered
MatchArmUnlowered(pat, expr, guard) == [pat |-> pat, expr |-> dummy_expr_id, guard |-> guard]

MatchArm(pat, expr, guard) == [pat |-> pat, expr |-> expr, guard |-> guard]

\* the arms of an `if let` with the catch-all arm first
IfLetArmsSwapped(l) ==
    <<MatchArm(l.placeholder_pat[1], l.else_expr[1], None),
      MatchArm(l.pat[1], l.then_branch[1], None)>>

\* the arms of a `while let` whose catch-all arm re-enters the loop body
WhileLetArmsNoBreak(l) ==
    <<MatchArm(l.pat[1], l.body[1], None),
      MatchArm(l.placeholder_pat[1], l.body[1], None)>>

\* the arms of the match an `if let` is rewritten to
IfLetArms(l) ==
    <<MatchArm(l.pat[1], l.then_branch[1], None),
      MatchArm(l.placeholder_pat[1], l.else_expr[1], None)>>

\* the arms of the match a `while let` is rewritten to
WhileLetArms(l) ==
    <<MatchArm(l.pat[1], l.body[1], None),
      MatchArm(l.placeholder_pat[1], l.break_[1], None)>>

\* The Expr a match arm of collect_expr builds from its locals l.  Fields that
\* are copied from the syntax and hold no arena id (names, operators, type
\* refs, paths, literal values) are left out.
MakeExpr(tag, l) ==
    CASE tag = "Missing" -> [tag |-> "Missing"]
      [] tag = "If" -> [tag |-> "If", condition |-> l.condition[1],
                        then_branch |-> l.then_branch[1], else_branch |-> l.else_branch]
      [] tag = "IfLetMatch" -> [tag |-> "Match", expr |-> l.match_expr[1], arms |-> IfLetArms(l)]
      [] tag = "While" -> [tag |-> "While", condition |-> l.condition[1], body |-> l.body[1]]
      [] tag = "BreakNone" -> [tag |-> "Break", expr |-> None]
      [] tag = "WhileLetMatch" ->
            [tag |-> "Match", expr |-> l.match_expr[1], arms |-> WhileLetArms(l)]
      [] tag = "WhileLetLoop" -> [tag |-> "Loop", body |-> l.match[1]]
      [] tag = "Block" -> [tag |-> "Block", statements |-> l.statements, tail |-> l.tail]
      [] tag = "Match" -> [tag |-> "Match", expr |-> l.expr[1], arms |-> l.arms]
      [] tag = "RecordLit" -> [tag |-> "RecordLit", fields |-> l.fields, spread |-> l.spread]
      [] tag = "RecordLitEmpty" -> [tag |-> "RecordLit", fields |-> <<>>, spread |-> None]
      [] tag = "Lambda" -> [tag |-> "Lambda", args |-> l.args, body |-> l.body[1]]
      [] tag = "TryBlock" \/ tag = "Loop" -> [tag |-> tag, body |-> l.body[1]]
      [] tag = "For" -> [tag |-> "For", iterable |-> l.iterable[1], pat |-> l.pat[1],
                         body |-> l.body[1]]
      [] tag = "Call" -> [tag |-> "Call", callee |-> l.callee[1], args |-> l.args]
      [] tag = "MethodCall" -> [tag |-> "MethodCall", receiver |-> l.receiver[1], args |-> l.args]
      [] tag = "Path" \/ tag = "Continue" \/ tag = "Literal" -> [tag |-> tag]
      [] tag = "Break" \/ tag = "Return" -> [tag |-> tag, expr |-> l.expr]
      [] tag \in {"Field", "Await", "Try", "Cast", "Ref", "Box", "UnaryOp"} ->
            [tag |-> tag, expr |-> l.expr[1]]
      [] tag = "BinaryOp" -> [tag |-> "BinaryOp", lhs |-> l.lhs[1], rhs |-> l.rhs[1]]
      [] tag = "Index" -> [tag |-> "Index", base |-> l.base[1], index |-> l.index[1]]
      [] tag = "Tuple" -> [tag |-> "Tuple", exprs |-> l.exprs]
      [] tag = "ArrayElementList" -> [tag |-> "Array", exprs |-> l.exprs]
      [] tag = "ArrayRepeat" ->
            [tag |-> "Array", initializer |-> l.initializer[1], repeat |-> l.repeat[1]]
      [] tag = "Range" -> [tag |-> "Range", lhs |-> l.lhs, rhs |-> l.rhs]

MissingName == "[missing name]"
Unannotated == "Unannotated"

\* a resolution test that takes every struct for a path
IsPathResAnyStruct(res) ==
    res \in {"ConstId", "EnumVariantId", "StructId.Tuple", "StructId.Unit", "StructId.Record"}

\* resolved.take_values() and, for a struct, struct_data(s).variant_data.kind()
IsPathRes(res) == res \in {"ConstId", "EnumVariantId", "StructId.Tuple", "StructId.Unit"}

\* whether the BindPat arm asks resolve_path
AsksResolve(n, subpat) == n.v = Unannotated /\ subpat = None

BindPat(n, subpat) ==
    IF AsksResolve(n, subpat) /\ IsPathRes(n.res)
    THEN [tag |-> "Path", path |-> n.name]
    ELSE [tag |-> "Bind", name |-> n.name, mode |-> n.v, subpat |-> subpat]

\* The Pat a match arm of collect_pat builds for syntax node n from its locals l.
MakePat(tag, n, l) ==
    CASE tag = "Bind" -> BindPat(n, l.subpat)
      [] tag = "TupleStruct" -> [tag |-> "TupleStruct", args |-> l.args]
      [] tag = "Ref" -> [tag |-> "Ref", pat |-> l.pat[1]]
      [] tag = "Path" -> [tag |-> "Path", path |-> "path"]
      [] tag = "Or" -> [tag |-> "Or", pats |-> l.pats]
      [] tag = "Tuple" -> [tag |-> "Tuple", args |-> l.args]
      [] tag = "Wild" -> [tag |-> "Wild"]
      [] tag = "Record" -> [tag |-> "Record", args |-> l.fields]
      [] tag = "Slice" -> [tag |-> "Slice", prefix |-> l.prefix, slice |-> l.slice,
                           suffix |-> l.suffix]
      [] tag = "Lit" -> [tag |-> "Lit", expr |-> l.expr_id[1]]
      [] tag = "Missing" -> [tag |-> "Missing"]

\* what a closure over a carrier node hands back to the collecting iterator
YieldValue(tag, n, l) ==
    CASE tag = "Nothing" -> <<>>
      [] tag = "Id" -> l.pat
      [] tag = "Let" -> <<[stmt |-> "Let", pat |-> l.pat[1], initializer |-> l.initializer]>>
      [] tag = "ExprStmt" -> <<[stmt |-> "Expr", expr |-> l.expr[1]]>>
      [] tag = "MatchArm" -> <<MatchArm(l.pat[1], l.expr[1], l.guard)>>
      [] tag = "RecordLitField" -> <<[expr |-> l.expr[1]]>>
      [] tag = "RecordFieldPat" -> <<[name |-> "field", pat |-> l.pat[1]]>>

\* ------------------------------------------------------------------ the call stack
Top == stack[Len(stack)]
ProgOf(f) == Prog(f.kind, f.v)
Cur == ProgOf(Top)[Top.pc]
Running == status = "running"

\* the syntax node a new child of the running call becomes
Child(c) ==
    [kind |-> c.kind, v |-> c.v, name |-> c.name, res |-> c.res,
     file_id |-> expander.current_file_id, parent |-> Top.node, slot |-> Cur.to]

\* the call whose frame is the last of stk goes on with val as the result of
\* the step it was at
Resume(stk, val) ==
    LET n == Len(stk)
        f == stk[n]
        op == ProgOf(f)[f.pc]
    IN  [stk EXCEPT ![n] = [f EXCEPT !.vals = [@ EXCEPT ![op.to] = @ \o val],
                                     !.pc = IF op.op = "list" THEN f.pc ELSE f.pc + 1]]

\* collect(): self.body.params.push(param_pat); self.body.body_expr = ...;
\* (self.body, self.source_map)
Continue(stk, val) ==
    LET n == Len(stk)
        f == stk[n]
        op == ProgOf(f)[f.pc]
        new == Resume(stk, val)
    IN  /\ stack' = new
        /\ body' = IF n = 1
                   THEN [params |-> IF op.to = "params" THEN body.params \o val
                                    ELSE body.params,
                         body_expr |-> IF op.to = "body_expr" THEN val[1]
                                       ELSE body.body_expr]
                   ELSE body
        /\ status' = IF n = 1 /\ new[1].pc > Len(ProgOf(f)) THEN "done" ELSE status

\* record_field_pat_list.bind_pats(): let name = bind_pat.name()?.as_name();
\* Some(RecordFieldPat { name, pat })
Wrap(op, callee, val) ==
    IF op.arg = "bind_pat"
    THEN IF ast[callee.node].name = MissingName THEN <<>>
         ELSE <<[name |-> ast[callee.node].name, pat |-> val[1]]>>
    ELSE val

\* the running call returns val to its caller
Return(val) ==
    LET n == Len(stack)
        caller == stack[n - 1]
    IN  /\ Continue(SubSeq(stack, 1, n - 1), Wrap(ProgOf(caller)[caller.pc], Top, val))
        /\ ret' = [ret EXCEPT ![Top.node] = val]

\* the running call goes on to its next step
Step(val) == Continue(stack, val) /\ UNCHANGED ret

\* ------------------------------------------------------------------ the input
\* ast::Expr and ast::Pat nodes met so far; the calls that a macro calling
\* itself expands to are made by the expander and are no part of the input
Used ==
    Cardinality({n \in DOMAIN ast : /\ ast[n].kind \notin Carriers \cup ItemKinds
                                     /\ ast[n].slot # "self"})

\* children that calls in progress have in hand and have not lowered yet
Reserved ==
    Cardinality(UNION {{<<i, j>> : j \in {k \in DOMAIN ProgOf(stack[i]) :
        /\ ProgOf(stack[i])[k].op = "req"
        /\ \/ k > stack[i].pc
           \/ i = Len(stack) /\ k = stack[i].pc}} : i \in 1 .. Len(stack)})

Need(c) ==
    (IF c.kind \in Carriers THEN 0 ELSE 1)
    + Cardinality({j \in DOMAIN Prog(c.kind, c.v) : Prog(c.kind, c.v)[j].op = "req"})

\* The children an input may have in a position of class cls.  P gives the
\* forms the input is drawn from: for each class of position, the nodes that
\* may stand there.
Choices(P, cls) ==
    CASE cls = "expr" -> P.expr
      [] cls = "block" -> {c \in P.expr : c.kind = "BlockExpr"}
      [] cls = "else" -> {c \in P.expr : c.kind \in {"BlockExpr", "IfExpr"}}
      [] cls = "pat" -> P.pat
      [] cls = "bind_pat" -> {c \in P.pat : c.kind = "BindPat"}
      [] cls = "stmt" -> P.stmt
      [] cls = "arm" -> P.arm
      [] cls = "field" -> P.field
      [] cls = "param" -> P.param
      [] cls = "lparam" -> P.lparam
      [] cls = "field_pat" -> P.field_pat

\* ------------------------------------------------------------------ actions
others == <<item_scope, field_map, expansions, expander, resolved, console>>

\* collect_expr(expr) / collect_pat(pat) / the closure of an iterator is
\* entered for a child that is present
EnterChild(P) ==
    /\ Running
    /\ Cur.op \in {"opt", "map", "req", "list"}
    /\ Cur.op = "list" => Top.cnt < MaxList
    /\ LET room == MaxNodes - (Used + Reserved - (IF Cur.op = "req" THEN 1 ELSE 0))
       IN  \E c \in Choices(P, Cur.arg) :
            /\ Need(c) <= room
            /\ ast' = Append(ast, Child(c))
            /\ ret' = Append(ret, <<>>)
            /\ stack' = [stack EXCEPT ![Len(stack)] =
                            [@ EXCEPT !.cnt = IF Cur.op = "list" THEN @ + 1 ELSE @,
                                      !.vals.field_ptrs = IF c.kind = "RecordField"
                                                          THEN Append(@, Len(ast) + 1) ELSE @]]
                        \o <<Frame(Len(ast) + 1, c.kind, c.v)>>
    /\ UNCHANGED <<arenas, body, status, none_ret, others>>

\* collect_expr_opt(None), collect_block_opt(None)
CollectExprOptNone ==
    /\ Running
    /\ Cur.op = "opt" /\ Cur.arg \in {"expr", "block"}
    /\ missing_expr
    /\ Step(<<NextId(exprs)>>)
    /\ none_ret' = Append(none_ret, [arena |-> "expr", id |-> NextId(exprs),
                                     parent |-> Top.node, slot |-> Cur.to])
    /\ UNCHANGED <<pat_side, ast, others>>

\* collect_pat_opt(None)
CollectPatOptNone ==
    /\ Running
    /\ Cur.op = "opt" /\ Cur.arg = "pat"
    /\ missing_pat
    /\ Step(<<NextId(pats)>>)
    /\ none_ret' = Append(none_ret, [arena |-> "pat", id |-> NextId(pats),
                                     parent |-> Top.node, slot |-> Cur.to])
    /\ UNCHANGED <<expr_side, ast, others>>

\* None.map(..)
MapNone ==
    /\ Running
    /\ Cur.op = "map"
    /\ Step(<<>>)
    /\ UNCHANGED <<arenas, ast, none_ret, others>>

\* the iterator over a child list is exhausted
ListEnd ==
    /\ Running
    /\ Cur.op = "list"
    /\ stack' = [stack EXCEPT ![Len(stack)] = [@ EXCEPT !.pc = @ + 1, !.cnt = 0]]
    /\ UNCHANGED <<arenas, body, status, ast, ret, none_ret, others>>

\* self.missing_expr() in the arm of a condition-less if / while, and in the
\* closure over a record field without value and name
MissingExpr ==
    /\ Running
    /\ Cur.op = "missing_expr"
    /\ missing_expr
    /\ Step(<<NextId(exprs)>>)
    /\ UNCHANGED <<pat_side, ast, none_ret, others>>

\* let placeholder_pat = self.missing_pat();
PlaceholderPat ==
    /\ Running
    /\ Cur.op = "missing_pat"
    /\ missing_pat
    /\ Step(<<NextId(pats)>>)
    /\ UNCHANGED <<expr_side, ast, none_ret, others>>

\* self.alloc_expr_desugared(Expr::Break { .. }) / (Expr::Match { .. })
Desugared ==
    /\ Running
    /\ Cur.op = "desugared"
    /\ alloc_expr_desugared(MakeExpr(Cur.arg, Top.vals))
    /\ Step(<<NextId(exprs)>>)
    /\ UNCHANGED <<pat_side, ast, none_ret, others>>

\* else_branch.unwrap_or_else(|| self.empty_block())
UnwrapOrEmptyBlock ==
    /\ Running
    /\ Cur.op = "unwrap_or_empty_block"
    /\ IF Top.vals[Cur.arg] # None
       THEN Step(Top.vals[Cur.arg]) /\ UNCHANGED expr_side
       ELSE empty_block /\ Step(<<NextId(exprs)>>)
    /\ UNCHANGED <<pat_side, ast, none_ret, others>>

\* field shorthand
FieldShorthand ==
    /\ Running
    /\ Cur.op = "shorthand"
    /\ alloc_expr_field_shorthand([tag |-> "Path"], Top.node)
    /\ Step(<<NextId(exprs)>>)
    /\ UNCHANGED <<pat_side, ast, none_ret, others>>

\* the literal of a literal pattern
AllocLiteral ==
    /\ Running
    /\ Cur.op = "alloc_literal"
    /\ ast' = Append(ast, Child(Node("LiteralToken", "")))
    /\ alloc_expr([tag |-> "Literal"], Len(ast) + 1)
    /\ Continue(stack, <<NextId(exprs)>>)
    /\ ret' = Append(ret, <<NextId(exprs)>>)
    /\ UNCHANGED <<pat_side, none_ret, others>>

\* the self parameter
SelfParam ==
    /\ Running
    /\ Cur.op = "self_param"
    /\ ast' = Append(ast, Child(Node("SelfParam", "")))
    /\ alloc_pat([tag |-> "Bind", name |-> "self", mode |-> Unannotated, subpat |-> None],
                 Right(Len(ast) + 1))
    /\ Continue(stack, <<NextId(pats)>>)
    /\ ret' = Append(ret, <<NextId(pats)>>)
    /\ UNCHANGED <<expr_side, none_ret, others>>

\* self.alloc_expr(.., syntax_ptr) as the value of the arm
AllocExpr ==
    /\ Running
    /\ Cur.op = "alloc_expr"
    /\ alloc_expr(MakeExpr(Cur.arg, Top.vals), Top.node)
    /\ Return(<<NextId(exprs)>>)
    /\ UNCHANGED <<pat_side, ast, none_ret, others>>

\* self.alloc_pat(pattern, Either::Left(ptr)) at the end of collect_pat
AllocPat ==
    /\ Running
    /\ Cur.op = "alloc_pat"
    /\ alloc_pat(MakePat(Cur.arg, ast[Top.node], Top.vals), Left(Top.node))
    /\ Return(<<NextId(pats)>>)
    /\ resolved' = IF Cur.arg = "Bind" /\ AsksResolve(ast[Top.node], Top.vals.subpat)
                   THEN resolved \cup {Top.node} ELSE resolved
    /\ UNCHANGED <<expr_side, ast, none_ret, item_scope, field_map, expansions, expander,
                   console>>

\* ast::Expr::ParenExpr
ParenExpr ==
    /\ Running
    /\ Cur.op = "paren_expr"
    /\ expr_map' = MapInsert(expr_map, to_source(Left(Top.node)), Top.vals[Cur.arg][1])
    /\ Return(Top.vals[Cur.arg])
    /\ UNCHANGED <<exprs, expr_map_back, pat_side, ast, none_ret, others>>

\* ast::Pat::ParenPat(p) => return self.collect_pat_opt(p.pat())
ReturnInner ==
    /\ Running
    /\ Cur.op = "return"
    /\ Return(Top.vals[Cur.arg])
    /\ UNCHANGED <<arenas, ast, none_ret, others>>

\* the closure over a carrier node returns
Yield ==
    /\ Running
    /\ Cur.op = "yield"
    /\ Return(YieldValue(Cur.arg, ast[Top.node], Top.vals))
    /\ UNCHANGED <<arenas, ast, none_ret, others>>

\* p.record_field_pat_list().expect("every struct should have a field list")
Expect ==
    /\ Running
    /\ Cur.op = "expect"
    /\ status' = "panicked"
    /\ UNCHANGED <<arenas, body, stack, ast, ret, none_ret, others>>

\* for (i, ptr) in field_ptrs.into_iter().enumerate() { field_map.insert((res, i), ptr) }
FieldMapInsert(m, res, field_ptrs) ==
    LET keys == {<<res, i - 1>> : i \in 1 .. Len(field_ptrs)}
    IN  [k \in (DOMAIN m) \cup keys |-> IF k \in keys THEN field_ptrs[k[2] + 1] ELSE m[k]]

\* ast::Expr::RecordLit
AllocRecordLit ==
    /\ Running
    /\ Cur.op = "alloc_record_lit"
    /\ alloc_expr(MakeExpr(Cur.arg, Top.vals), Top.node)
    /\ field_map' = FieldMapInsert(field_map, NextId(exprs), Top.vals.field_ptrs)
    /\ Return(<<NextId(exprs)>>)
    /\ UNCHANGED <<pat_side, ast, none_ret, item_scope, expansions, expander, resolved, console>>

\* ------------------------------------------------------------------ item scope
\* the ModuleItem kinds collect_block_items makes a definition for, with the
\* Loc it interns
ItemLoc(kind) ==
    CASE kind = "FnDef" -> "FunctionLoc"
      [] kind = "TypeAliasDef" -> "TypeAliasLoc"
      [] kind = "ConstDef" -> "ConstLoc"
      [] kind = "StaticDef" -> "StaticLoc"
      [] kind = "StructDef" -> "StructLoc"
      [] kind = "EnumDef" -> "EnumLoc"
      [] kind = "UnionDef" -> "UnionLoc"
      [] kind = "TraitDef" -> "TraitLoc"
      [] OTHER -> "continue"

\* PerNs::from_def: the namespaces a definition is visible in
NsOf(loc) ==
    CASE loc \in {"FunctionLoc", "ConstLoc", "StaticLoc"} -> {"values"}
      [] loc \in {"TypeAliasLoc", "EnumLoc", "TraitLoc"} -> {"types"}
      [] loc \in {"StructLoc", "UnionLoc"} -> {"types", "values"}

\* ItemScope::define_def
define_def(scope, def) == [scope EXCEPT !.defs = Append(@, def)]

\* ItemScope::push_res: a namespace of a name that has an entry keeps it
push_res(scope, name, def, vis) ==
    LET keys == {<<name, ns>> : ns \in NsOf(def.loc)}
    IN  [scope EXCEPT !.visible =
            [k \in (DOMAIN @) \cup keys |->
                IF k \in DOMAIN @ THEN @[k] ELSE [def |-> def, vis |-> vis]]]

\* ItemScope::define_legacy_macro
define_legacy_macro(scope, name, mac) ==
    [scope EXCEPT !.legacy_macros = MapInsert(@, name, mac)]

\* one turn of that loop, were the declared visibility of the item recorded
CollectBlockItemDeclared(scope, item, n) ==
    IF ItemLoc(item.kind) = "continue" THEN scope
    ELSE LET def == [loc |-> ItemLoc(item.kind),
                     ast_id |-> [file_id |-> expander.current_file_id, value |-> n]]
             defined == define_def(scope, def)
         IN  IF item.name # ""
             THEN push_res(defined, item.name, def, IF item.v = "pub" THEN "Public" ELSE "Module")
             ELSE defined

\* one turn of the loop of collect_block_items, for the item that is syntax node n
CollectBlockItem(scope, item, n) ==
    IF ItemLoc(item.kind) = "continue" THEN scope
    ELSE LET def == [loc |-> ItemLoc(item.kind),
                     ast_id |-> [file_id |-> expander.current_file_id, value |-> n]]
             defined == define_def(scope, def)
         IN  IF item.name # ""
             THEN push_res(defined, item.name, def, "Public")
             ELSE defined

RECURSIVE CollectBlockItems(_, _, _)
CollectBlockItems(scope, items, base) ==
    IF items = <<>> THEN scope
    ELSE LET k == Len(items)
         IN  CollectBlockItem(CollectBlockItems(scope, SubSeq(items, 1, k - 1), base),
                              items[k], base + k)

ItemSeqs(P) == UNION {[1 .. n -> P.items] : n \in 0 .. MaxItems}

\* self.collect_block_items(&block)
BlockItems(P) ==
    /\ Running
    /\ Cur.op = "block_items"
    /\ \E items \in ItemSeqs(P) :
        /\ ast' = ast \o [i \in 1 .. Len(items) |-> Child(items[i])]
        /\ ret' = ret \o [i \in 1 .. Len(items) |-> <<>>]
        /\ item_scope' = CollectBlockItems(item_scope, items, Len(ast))
    /\ stack' = [stack EXCEPT ![Len(stack)] = [@ EXCEPT !.pc = @ + 1]]
    /\ UNCHANGED <<arenas, body, status, none_ret, field_map, expansions, expander, resolved, console>>

\* ------------------------------------------------------------------ macros
\* a macro definition lowered to its Missing node only
MacroDefUnregistered ==
    /\ Running
    /\ Cur.op = "macro_def"
    /\ alloc_expr([tag |-> "Missing"], Top.node)
    /\ Return(<<NextId(exprs)>>)
    /\ UNCHANGED <<pat_side, ast, none_ret, item_scope, field_map, expansions, expander,
                   resolved, console>>

\* ast::Expr::MacroCall with is_macro_rules()
MacroDef ==
    /\ Running
    /\ Cur.op = "macro_def"
    /\ item_scope' = define_legacy_macro(item_scope, ast[Top.node].name,
            [kind |-> "Declarative",
             ast_id |-> [file_id |-> expander.current_file_id, value |-> Top.node]])
    /\ alloc_expr([tag |-> "Missing"], Top.node)
    /\ Return(<<NextId(exprs)>>)
    /\ UNCHANGED <<pat_side, ast, none_ret, field_map, expansions, expander, resolved, console>>

\* enter_expand without recursion limit
ExpandsUnlimited == Top.v \in {"expand", "rec"}

\* Expander::enter_expand: Some((mark, expansion)) when the call resolves and
\* the recursion limit is not reached
Expands == Top.v \in {"expand", "rec"} /\ expander.depth < ExpansionLimit

\* the Some arm recording the file of the call as the file expanded into
EnterExpandCallerFile ==
    /\ Running
    /\ Cur.op = "enter_expand"
    /\ LET macro_call == to_source(Top.node)
       IN  IF Expands
           THEN /\ expander.depth < MaxDepth
                /\ expander' = [current_file_id |-> expander.next_file,
                                next_file |-> expander.next_file + 1,
                                depth |-> expander.depth + 1]
                /\ expansions' = MapInsert(expansions, macro_call, expander.current_file_id)
                /\ Step(<<expander.current_file_id>>)
                /\ UNCHANGED expr_side
           ELSE /\ alloc_expr([tag |-> "Missing"], Top.node)
                /\ Return(<<NextId(exprs)>>)
                /\ UNCHANGED <<expander, expansions>>
    /\ UNCHANGED <<pat_side, ast, none_ret, item_scope, field_map, resolved, console>>

\* self.expander.enter_expand(..) and the arm of its result that is taken
EnterExpand ==
    /\ Running
    /\ Cur.op = "enter_expand"
    /\ LET macro_call == to_source(Top.node)
       IN  IF Expands
           THEN /\ expander.depth < MaxDepth
                /\ expander' = [current_file_id |-> expander.next_file,
                                next_file |-> expander.next_file + 1,
                                depth |-> expander.depth + 1]
                /\ expansions' = MapInsert(expansions, macro_call, expander.next_file)
                /\ Step(<<expander.current_file_id>>)
                /\ UNCHANGED expr_side
           ELSE /\ alloc_expr([tag |-> "Missing"], Top.node)
                /\ Return(<<NextId(exprs)>>)
                /\ UNCHANGED <<expander, expansions>>
    /\ UNCHANGED <<pat_side, ast, none_ret, item_scope, field_map, resolved, console>>

\* let id = self.collect_expr(expansion), for the expansion of a macro that
\* calls itself
EnterSelf ==
    /\ Running
    /\ Cur.op = "self"
    /\ ast' = Append(ast, [Child(Node("MacroCall", "rec")) EXCEPT !.slot = "self"])
    /\ ret' = Append(ret, <<>>)
    /\ stack' = Append(stack, Frame(Len(ast) + 1, "MacroCall", "rec"))
    /\ UNCHANGED <<arenas, body, status, none_ret, others>>

\* self.expander.exit(self.db, mark); id
ExitExpand ==
    /\ Running
    /\ Cur.op = "exit"
    /\ expander' = [expander EXCEPT !.current_file_id = Top.vals.mark[1], !.depth = @ - 1]
    /\ Return(Top.vals[Cur.arg])
    /\ UNCHANGED <<arenas, ast, none_ret, item_scope, field_map, expansions, resolved, console>>

\* ------------------------------------------------------------------ console test runner
Tests == 1 .. MaxTests

\* test_result::TestResult
TestResults == {"TrOk", "TrIgnored", "TrBench", "TrFailed", "TrFailedMsg", "TrTimedFail"}

\* event::CompletedTest
CompletedTests == [desc : Tests, result : TestResults, stdout : {<<>>}]

\* ConsoleTestState::new(opts)
ConsoleTestStateNew ==
    [total |-> 0, passed |-> 0, failed |-> 0, ignored |-> 0, filtered_out |-> 0, measured |-> 0,
     exec_time |-> None, metrics |-> {}, failures |-> <<>>, not_failures |-> <<>>,
     ignores |-> <<>>, time_failures |-> <<>>]

\* a test count that leaves the benchmarks out
current_test_count_unmeasured(s) == s.passed + s.failed + s.ignored

\* ConsoleTestState::current_test_count
current_test_count(s) == s.passed + s.failed + s.ignored + s.measured

\* handle_test_result(st, completed_test)
handle_test_result(s, completed_test) ==
    LET test == completed_test.desc
        stdout == completed_test.stdout
    IN  CASE completed_test.result = "TrOk" ->
                [s EXCEPT !.passed = @ + 1, !.not_failures = Append(@, <<test, stdout>>)]
          [] completed_test.result = "TrIgnored" ->
                [s EXCEPT !.ignored = @ + 1, !.ignores = Append(@, <<test, stdout>>)]
          [] completed_test.result = "TrBench" ->
                [s EXCEPT !.metrics = @ \cup {test}, !.measured = @ + 1]
          [] completed_test.result = "TrFailed" ->
                [s EXCEPT !.failed = @ + 1, !.failures = Append(@, <<test, stdout>>)]
          [] completed_test.result = "TrFailedMsg" ->
                [s EXCEPT !.failed = @ + 1,
                          !.failures = Append(@, <<test, stdout \o <<"note: msg">>>>)]
          [] completed_test.result = "TrTimedFail" ->
                [s EXCEPT !.failed = @ + 1, !.time_failures = Append(@, <<test, stdout>>)]

\* a call of the OutputFormatter: it writes, or fails with an io::Error that
\* `?` hands up through run_tests to the caller of run_tests_console
Write(call, arg, written) ==
    IF written
    THEN out' = Append(out, [call |-> call, arg |-> arg]) /\ run' = run
    ELSE out' = out /\ run' = "io error"

\* run_tests is calling on_test_event
Notifying == run = "running" /\ Len(out) < MaxEvents

\* on_test_event: TestEvent::TeFiltered(filtered_tests, shuffle_seed)
TeFiltered ==
    /\ Notifying
    /\ \E filtered_tests \in 0 .. MaxTests, written \in BOOLEAN :
        /\ st' = [st EXCEPT !.total = filtered_tests]
        /\ Write("write_run_start", filtered_tests, written)
    /\ UNCHANGED <<lowering, fail_fast>>

\* on_test_event: TestEvent::TeFilteredOut(filtered_out)
TeFilteredOut ==
    /\ Notifying
    /\ \E filtered_out \in 0 .. MaxTests : st' = [st EXCEPT !.filtered_out = filtered_out]
    /\ UNCHANGED <<lowering, fail_fast, out, run>>

\* on_test_event: TestEvent::TeWait(test)
TeWait ==
    /\ Notifying
    /\ \E test \in Tests, written \in BOOLEAN : Write("write_test_start", test, written)
    /\ UNCHANGED <<lowering, fail_fast, st>>

\* on_test_event: TestEvent::TeTimeout(test)
TeTimeout ==
    /\ Notifying
    /\ \E test \in Tests, written \in BOOLEAN : Write("write_timeout", test, written)
    /\ UNCHANGED <<lowering, fail_fast, st>>

\* on_test_event: TestEvent::TeResult(completed_test)
TeResult ==
    /\ Notifying
    /\ \E completed_test \in CompletedTests, written \in BOOLEAN :
        /\ Write("write_result", completed_test, written)
        /\ st' = IF written THEN handle_test_result(st, completed_test) ELSE st
    /\ UNCHANGED <<lowering, fail_fast>>

\* run_tests_console after run_tests returned Ok: st.exec_time, the assertion,
\* out.write_run_finish(&st)
RunFinish ==
    /\ run = "running"
    /\ \E exec_time \in {None, Some("elapsed")}, written \in BOOLEAN :
        /\ st' = [st EXCEPT !.exec_time = exec_time]
        /\ IF fail_fast \/ current_test_count(st') = st'.total
           THEN IF written
                THEN out' = Append(out, [call |-> "write_run_finish", arg |-> st']) /\ run' = "finished"
                ELSE out' = out /\ run' = "io error at finish"
           ELSE out' = out /\ run' = "panicked"
    /\ UNCHANGED <<lowering, fail_fast>>

\* ------------------------------------------------------------------ lower
\* lower(db, def, expander, params, body): the collector as constructed, about
\* to run collect(params, body)
LowerInit(P) ==
    /\ exprs = <<>>
    /\ pats = <<>>
    /\ body = [params |-> <<>>, body_expr |-> dummy_expr_id]
    /\ item_scope = [defs |-> <<>>, visible |-> EmptyMap, legacy_macros |-> EmptyMap]
    /\ expr_map = EmptyMap
    /\ expr_map_back = EmptyMap
    /\ pat_map = EmptyMap
    /\ pat_map_back = EmptyMap
    /\ field_map = EmptyMap
    /\ expansions = EmptyMap
    /\ expander = [current_file_id |-> 0, next_file |-> 1, depth |-> 0]
    /\ \E v \in P.root : stack = <<Frame(0, "Collect", v)>>
    /\ status = "running"
    /\ ast = <<>>
    /\ ret = <<>>
    /\ none_ret = <<>>
    /\ resolved = {}
    /\ st = ConsoleTestStateNew
    /\ fail_fast = FALSE
    /\ out = <<>>
    /\ run = "not started"

\* ------------------------------------------------------------------ inputs
\* what crate_def_map.resolve_path finds for a name in the value namespace
CrateDefMap ==
    [n \in {"CONST", "Variant", "Tuple", "Unit", "Record", "STATIC", "func", "x", MissingName} |->
        CASE n = "CONST" -> "ConstId"
          [] n = "Variant" -> "EnumVariantId"
          [] n = "Tuple" -> "StructId.Tuple"
          [] n = "Unit" -> "StructId.Unit"
          [] n = "Record" -> "StructId.Record"
          [] n = "STATIC" -> "StaticId"
          [] n = "func" -> "FunctionId"
          [] OTHER -> "None"]

\* BindingAnnotation::new(is_mutable, is_ref)
Annotations == {Unannotated, "Mutable", "Ref", "RefMut"}

BindPats(annotations, names) == {Ident(v, n, CrateDefMap[n]) : v \in annotations, n \in names}

Forms(kind, variants) == {Node(kind, v) : v \in variants}
Plain(kinds) == {Node(k, "") : k \in kinds}

AllExprs ==
    Forms("IfExpr", {"nocond", "cond", "let"}) \cup Forms("WhileExpr", {"nocond", "cond", "let"})
    \cup Forms("BlockExpr", {"block", "noblock"}) \cup Forms("PathExpr", {"ok", "bad"})
    \cup Forms("PrefixExpr", {"op", "noop"}) \cup Forms("RangeExpr", {"op", "noop"})
    \cup Forms("ArrayExpr", {"list", "repeat"}) \cup Forms("RecordLit", {"fields", "nofields"})
    \cup Forms("MacroCall", {"fail", "expand"})
    \cup {[kind |-> "MacroCall", v |-> "def", name |-> "m", res |-> ""]}
    \cup Plain({"TryBlockExpr", "LoopExpr", "ForExpr", "CallExpr", "MethodCallExpr", "MatchExpr",
                "ContinueExpr", "BreakExpr", "ParenExpr", "ReturnExpr", "FieldExpr", "AwaitExpr",
                "TryExpr", "CastExpr", "RefExpr", "LambdaExpr", "BinExpr", "TupleExpr", "BoxExpr",
                "Literal", "IndexExpr", "Label"})

AllPats ==
    BindPats(Annotations, DOMAIN CrateDefMap)
    \cup Forms("PathPat", {"ok", "bad"}) \cup Forms("RecordPat", {"list", "nolist"})
    \cup Forms("LiteralPat", {"lit", "nolit"})
    \cup Plain({"TupleStructPat", "RefPat", "OrPat", "ParenPat", "TuplePat", "PlaceholderPat",
                "DotDotPat", "SlicePat", "BoxPat", "RangePat", "MacroPat"})

Items(kinds, names) == {[kind |-> k, v |-> "", name |-> n, res |-> ""] : k \in kinds, n \in names}

\* items declared `pub`; Items gives items without visibility qualifier
PubItems(kinds, names) ==
    {[kind |-> k, v |-> "pub", name |-> n, res |-> ""] : k \in kinds, n \in names}

\* every form of every position
Everything ==
    [root |-> {"none", "self", "noself"},
     expr |-> AllExprs,
     pat |-> AllPats,
     stmt |-> Plain({"LetStmt", "ExprStmt"}),
     arm |-> Plain({"MatchArm"}),
     field |-> Forms("RecordField", {"disabled", "expr", "shorthand", "noname"}),
     param |-> Forms("Param", {"nopat", "pat"}),
     lparam |-> Plain({"LambdaParam"}),
     field_pat |-> Forms("RecordFieldPat", {"nopat", "noname", "full"}),
     items |-> Items(ItemKinds, {"", "x"}) \cup PubItems(ItemKinds, {"", "x"})]

\* no form of any position
Nothing == [c \in DOMAIN Everything |-> {}]

\* ------------------------------------------------------------------ specifications
\* the steps every lowering takes
Lower(P) ==
    \/ EnterChild(P)
    \/ CollectExprOptNone
    \/ AllocExpr

\* ------------------------------------------------------------------ specifications
\* Bodies built from let-conditions, macro calls, blocks with local items,
\* parenthesized expressions and patterns, literals and identifier patterns.
CoreForms ==
    [Nothing EXCEPT
        !.root = {"none", "self", "noself"},
        !.param = Forms("Param", {"nopat", "pat"}),
        !.expr = Forms("IfExpr", {"let"}) \cup Forms("WhileExpr", {"let"})
                 \cup Forms("MacroCall", {"fail", "expand"})
                 \cup {[kind |-> "MacroCall", v |-> "def", name |-> "m", res |-> ""]}
                 \cup Forms("BlockExpr", {"block"})
                 \cup Plain({"ParenExpr", "Literal"}),
        !.pat = BindPats({Unannotated}, {"x"}) \cup Forms("LiteralPat", {"lit"})
                \cup Plain({"ParenPat"}),
        !.items = Items({"FnDef"}, {"x"})]

Next ==
    \/ Lower(CoreForms)
    \/ CollectPatOptNone
    \/ MapNone
    \/ ListEnd
    \/ AllocPat
    \/ PlaceholderPat
    \/ Desugared
    \/ UnwrapOrEmptyBlock
    \/ AllocLiteral
    \/ SelfParam
    \/ ParenExpr
    \/ ReturnInner
    \/ Yield
    \/ BlockItems(CoreForms)
    \/ MacroDef
    \/ EnterExpand
    \/ ExitExpand

Spec == LowerInit(CoreForms) /\ [][Next]_vars

\* Bodies whose nodes hold pattern ids: matches, let statements, for loops,
\* closures; and literal patterns, which hold an expression id.
RefForms ==
    [Nothing EXCEPT
        !.root = {"none", "noself"},
        !.param = Forms("Param", {"pat"}),
        !.expr = Plain({"ForExpr", "LambdaExpr", "MatchExpr", "Literal"})
                 \cup Forms("BlockExpr", {"block"}),
        !.stmt = Plain({"LetStmt"}),
        !.arm = Plain({"MatchArm"}),
        !.lparam = Plain({"LambdaParam"}),
        !.pat = Forms("LiteralPat", {"lit"}) \cup BindPats({Unannotated}, {"x"})]

NextRefs ==
    \/ Lower(RefForms)
    \/ CollectPatOptNone
    \/ MapNone
    \/ ListEnd
    \/ AllocPat
    \/ AllocLiteral
    \/ Yield
    \/ BlockItems(RefForms)

SpecRefs == LowerInit(RefForms) /\ [][NextRefs]_vars

\* Bodies built from conditionals and while loops of every shape of condition.
DesugarForms ==
    [Nothing EXCEPT
        !.root = {"none"},
        !.expr = Forms("IfExpr", {"nocond", "cond", "let"})
                 \cup Forms("WhileExpr", {"nocond", "cond", "let"})
                 \cup Forms("BlockExpr", {"block", "noblock"}) \cup Plain({"Literal"}),
        !.pat = BindPats({Unannotated}, {"x"}) \cup Plain({"PlaceholderPat"})]

NextDesugar ==
    \/ Lower(DesugarForms)
    \/ MapNone
    \/ ListEnd
    \/ AllocPat
    \/ MissingExpr
    \/ PlaceholderPat
    \/ Desugared
    \/ UnwrapOrEmptyBlock
    \/ BlockItems(DesugarForms)

SpecDesugar == LowerInit(DesugarForms) /\ [][NextDesugar]_vars

\* Bodies built from record literals with fields of every shape.
RecordForms ==
    [Nothing EXCEPT
        !.root = {"none"},
        !.expr = Forms("RecordLit", {"fields", "nofields"}) \cup Plain({"Literal"}),
        !.field = Forms("RecordField", {"disabled", "expr", "shorthand", "noname"})]

NextRecord ==
    \/ Lower(RecordForms)
    \/ MapNone
    \/ ListEnd
    \/ MissingExpr
    \/ FieldShorthand
    \/ Yield
    \/ AllocRecordLit

SpecRecord == LowerInit(RecordForms) /\ [][NextRecord]_vars

\* Bodies built from for loops over identifier patterns of every annotation
\* and resolution, and record patterns without field list.
PatForms ==
    [Nothing EXCEPT
        !.root = {"none"},
        !.expr = Plain({"ForExpr"}),
        !.pat = BindPats(Annotations, DOMAIN CrateDefMap) \cup Forms("RecordPat", {"nolist"})]

NextPat ==
    \/ Lower(PatForms)
    \/ CollectPatOptNone
    \/ MapNone
    \/ AllocPat
    \/ Expect

SpecPat == LowerInit(PatForms) /\ [][NextPat]_vars

\* Bodies built from the forms that lower to Missing: macro calls that do not
\* expand, labels, operator-less prefix and range expressions, block
\* expressions without block, paths that do not parse, and the unsupported
\* patterns; for loops give the patterns a place.
UnsupportedForms ==
    [Nothing EXCEPT
        !.root = {"none"},
        !.expr = Forms("MacroCall", {"fail"}) \cup Plain({"Label", "ForExpr"})
                 \cup Forms("PrefixExpr", {"noop"}) \cup Forms("RangeExpr", {"noop"})
                 \cup Forms("BlockExpr", {"noblock"}) \cup Forms("PathExpr", {"bad"}),
        !.pat = Plain({"BoxPat", "RangePat", "MacroPat"}) \cup Forms("LiteralPat", {"nolit"})
                \cup Forms("PathPat", {"bad"})]

NextUnsupported ==
    \/ Lower(UnsupportedForms)
    \/ CollectPatOptNone
    \/ MapNone
    \/ AllocPat
    \/ EnterExpand

SpecUnsupported == LowerInit(UnsupportedForms) /\ [][NextUnsupported]_vars

\* Bodies with calls of a macro that expands to a call of itself, among
\* other macro calls, parenthesized expressions and literals.
RecursionForms ==
    [Nothing EXCEPT
        !.root = {"none"},
        !.expr = Forms("MacroCall", {"rec", "expand", "fail"})
                 \cup Plain({"ParenExpr", "BinExpr", "Literal"})]

NextRecursion ==
    \/ Lower(RecursionForms)
    \/ ParenExpr
    \/ EnterExpand
    \/ EnterSelf
    \/ ExitExpand

SpecRecursion == LowerInit(RecursionForms) /\ [][NextRecursion]_vars

\* collect runs to its end: a call in progress always takes its next step
FairRecursion == SpecRecursion /\ WF_vars(NextRecursion)

\* Blocks of statements with local items, macro calls that expand and literals.
BlockForms ==
    [Nothing EXCEPT
        !.root = {"none"},
        !.expr = Forms("BlockExpr", {"block"}) \cup Forms("MacroCall", {"expand"})
                 \cup Plain({"Literal"}),
        !.stmt = Plain({"LetStmt", "ExprStmt"}),
        !.items = Items({"FnDef"}, {"x"})]

NextBlock ==
    \/ Lower(BlockForms)
    \/ CollectPatOptNone
    \/ MapNone
    \/ ListEnd
    \/ Yield
    \/ BlockItems(BlockForms)
    \/ EnterExpand
    \/ ExitExpand

SpecBlock == LowerInit(BlockForms) /\ [][NextBlock]_vars

\* Blocks inside blocks, each with local items of every kind, named or not,
\* private or declared `pub`.
ItemForms ==
    [Nothing EXCEPT
        !.root = {"none"},
        !.expr = Forms("BlockExpr", {"block"}),
        !.items = Items(ItemKinds, {"", "x"})
                  \cup PubItems({k \in ItemKinds : ItemLoc(k) # "continue"}, {"x"})]

NextItems ==
    \/ Lower(ItemForms)
    \/ MapNone
    \/ ListEnd
    \/ BlockItems(ItemForms)

SpecItems == LowerInit(ItemForms) /\ [][NextItems]_vars

\* Calls, method calls, operators, casts, references, indexing, ranges, array
\* repeats, tuples and boxes, over literals.
OperandForms ==
    [Nothing EXCEPT
        !.root = {"none"},
        !.expr = Plain({"CallExpr", "MethodCallExpr", "BinExpr", "CastExpr", "RefExpr",
                        "IndexExpr", "TupleExpr", "BoxExpr", "Literal"})
                 \cup Forms("PrefixExpr", {"op", "noop"}) \cup Forms("RangeExpr", {"op", "noop"})
                 \cup Forms("ArrayExpr", {"repeat"})]

NextOperand ==
    \/ Lower(OperandForms)
    \/ MapNone
    \/ ListEnd

SpecOperand == LowerInit(OperandForms) /\ [][NextOperand]_vars

\* A run of the console test runner: any sequence of events, then the end of the
\* run.  No body is being lowered.
ConsoleInit ==
    /\ exprs = <<>>
    /\ pats = <<>>
    /\ body = [params |-> <<>>, body_expr |-> dummy_expr_id]
    /\ item_scope = [defs |-> <<>>, visible |-> EmptyMap, legacy_macros |-> EmptyMap]
    /\ expr_map = EmptyMap
    /\ expr_map_back = EmptyMap
    /\ pat_map = EmptyMap
    /\ pat_map_back = EmptyMap
    /\ field_map = EmptyMap
    /\ expansions = EmptyMap
    /\ expander = [current_file_id |-> 0, next_file |-> 1, depth |-> 0]
    /\ stack = <<>>
    /\ status = "not started"
    /\ ast = <<>>
    /\ ret = <<>>
    /\ none_ret = <<>>
    /\ resolved = {}
    /\ st = ConsoleTestStateNew
    /\ fail_fast \in BOOLEAN
    /\ out = <<>>
    /\ run = "running"

NextConsole ==
    \/ TeFiltered
    \/ TeFilteredOut
    \/ TeWait
    \/ TeTimeout
    \/ TeResult
    \/ RunFinish

SpecConsole == ConsoleInit /\ [][NextConsole]_vars

\* ------------------------------------------------------------------ properties
\* the location of syntax node n, as to_source gave it when n was lowered
ExprSrc(n) == [file_id |-> ast[n].file_id, value |-> Left(n)]
PatSrc(n) == [file_id |-> ast[n].file_id, value |-> Left(n)]

\* a backward entry: the synthetic marker, or the location of a syntax node of
\* the input in the file the node stands in
IsBackEntry(e) ==
    \/ e = Err(SyntheticSyntax)
    \/ /\ e.ok
       /\ e.src.value.ptr \in DOMAIN ast
       /\ e.src.file_id = ast[e.src.value.ptr].file_id

\* C1: at every point of the lowering the backward expression map has an entry
\* for exactly the ids of the expression arena and the backward pattern map
\* for exactly the ids of the pattern arena, and each entry is either a real
\* source location or the synthetic marker.
BackwardMapsTotal ==
    /\ DOMAIN expr_map_back = ArenaIds(exprs)
    /\ DOMAIN pat_map_back = ArenaIds(pats)
    /\ \A id \in ArenaIds(exprs) : IsBackEntry(expr_map_back[id])
    /\ \A id \in ArenaIds(pats) : IsBackEntry(pat_map_back[id])

\* a finished lowering that allocated real and synthetic nodes of both kinds
BackwardMapsTotalWitness ==
    /\ status = "done"
    /\ \E a, b \in ArenaIds(exprs) :
            expr_map_back[a] = Err(SyntheticSyntax) /\ expr_map_back[b].ok
    /\ \E a, b \in ArenaIds(pats) :
            pat_map_back[a] = Err(SyntheticSyntax) /\ pat_map_back[b].ok

\* ids held by an Option or a Vec of ids
IdsIn(o) == {o[i] : i \in DOMAIN o}

\* the expression ids stored in the fields of expression node e
ExprsOfExpr(e) ==
    CASE e.tag \in {"Missing", "Path", "Continue", "Literal"} -> {}
      [] e.tag = "If" -> {e.condition, e.then_branch} \cup IdsIn(e.else_branch)
      [] e.tag = "Match" ->
            {e.expr} \cup UNION {{e.arms[i].expr} \cup IdsIn(e.arms[i].guard) : i \in DOMAIN e.arms}
      [] e.tag = "While" -> {e.condition, e.body}
      [] e.tag \in {"Loop", "TryBlock", "Lambda"} -> {e.body}
      [] e.tag = "Block" ->
            IdsIn(e.tail) \cup UNION {IF e.statements[i].stmt = "Let"
                                      THEN IdsIn(e.statements[i].initializer)
                                      ELSE {e.statements[i].expr} : i \in DOMAIN e.statements}
      [] e.tag = "RecordLit" -> {e.fields[i].expr : i \in DOMAIN e.fields} \cup IdsIn(e.spread)
      [] e.tag = "For" -> {e.iterable, e.body}
      [] e.tag = "Call" -> {e.callee} \cup IdsIn(e.args)
      [] e.tag = "MethodCall" -> {e.receiver} \cup IdsIn(e.args)
      [] e.tag \in {"Break", "Return"} -> IdsIn(e.expr)
      [] e.tag \in {"Field", "Await", "Try", "Cast", "Ref", "Box", "UnaryOp"} -> {e.expr}
      [] e.tag = "BinaryOp" -> {e.lhs, e.rhs}
      [] e.tag = "Index" -> {e.base, e.index}
      [] e.tag = "Tuple" -> IdsIn(e.exprs)
      [] e.tag = "Array" ->
            IF "exprs" \in DOMAIN e THEN IdsIn(e.exprs) ELSE {e.initializer, e.repeat}
      [] e.tag = "Range" -> IdsIn(e.lhs) \cup IdsIn(e.rhs)

\* the pattern ids stored in the fields of expression node e
PatsOfExpr(e) ==
    CASE e.tag = "Match" -> {e.arms[i].pat : i \in DOMAIN e.arms}
      [] e.tag = "For" -> {e.pat}
      [] e.tag = "Lambda" -> IdsIn(e.args)
      [] e.tag = "Block" ->
            UNION {IF e.statements[i].stmt = "Let" THEN {e.statements[i].pat} ELSE {}
                   : i \in DOMAIN e.statements}
      [] OTHER -> {}

\* the pattern ids stored in the fields of pattern node p
PatsOfPat(p) ==
    CASE p.tag = "Bind" -> IdsIn(p.subpat)
      [] p.tag \in {"TupleStruct", "Tuple"} -> IdsIn(p.args)
      [] p.tag = "Ref" -> {p.pat}
      [] p.tag = "Or" -> IdsIn(p.pats)
      [] p.tag = "Record" -> {p.args[i].pat : i \in DOMAIN p.args}
      [] p.tag = "Slice" -> IdsIn(p.prefix) \cup IdsIn(p.slice) \cup IdsIn(p.suffix)
      [] OTHER -> {}

\* the expression ids stored in the fields of pattern node p
ExprsOfPat(p) == IF p.tag = "Lit" THEN {p.expr} ELSE {}

ExprRef(id) == [arena |-> "expr", id |-> id]
PatRef(id) == [arena |-> "pat", id |-> id]

\* whether a reference names a node of its arena
Allocated(r) == r.id \in (IF r.arena = "expr" THEN ArenaIds(exprs) ELSE ArenaIds(pats))

\* the references stored in the node a reference names
RefsOf(r) ==
    IF ~Allocated(r) THEN {}
    ELSE IF r.arena = "expr"
         THEN {ExprRef(i) : i \in ExprsOfExpr(ArenaGet(exprs, r.id))}
              \cup {PatRef(i) : i \in PatsOfExpr(ArenaGet(exprs, r.id))}
         ELSE {ExprRef(i) : i \in ExprsOfPat(ArenaGet(pats, r.id))}
              \cup {PatRef(i) : i \in PatsOfPat(ArenaGet(pats, r.id))}

RECURSIVE Reachable(_)
Reachable(rs) ==
    LET more == rs \cup UNION {RefsOf(r) : r \in rs}
    IN  IF more = rs THEN rs ELSE Reachable(more)

\* the references of the Body: its root, its parameters, and all that is
\* reachable from them
BodyRefs == Reachable({ExprRef(body.body_expr)} \cup {PatRef(body.params[i]) : i \in DOMAIN body.params})

\* C2: in the Body that lower returns, the root expression id, every parameter
\* pattern id and every id stored in a node reachable from them is allocated
\* in the Body's own arena of its kind; the root is not the dummy id.
BodyIdsValid ==
    status = "done" =>
        /\ body.body_expr # dummy_expr_id
        /\ \A r \in BodyRefs : Allocated(r)

\* a returned Body with a parameter, in which a literal pattern's expression
\* and a pattern held by an expression are reached
BodyIdsValidWitness ==
    /\ status = "done"
    /\ body.params # <<>>
    /\ \E r \in BodyRefs : r.arena = "pat" /\ Allocated(r) /\ ExprsOfPat(ArenaGet(pats, r.id)) # {}
    /\ \E r \in BodyRefs : r.arena = "expr" /\ Allocated(r) /\ PatsOfExpr(ArenaGet(exprs, r.id)) # {}

\* what a step that lowers an absent optional child does for the id r.id it
\* returns: arena and back are the arena and backward map of r's kind
FreshMissing(r, arena, arena_after, back_after) ==
    /\ r.id \notin ArenaIds(arena)
    /\ r.id \in ArenaIds(arena_after)
    /\ ArenaGet(arena_after, r.id) = [tag |-> "Missing"]
    /\ back_after[r.id] = Err(SyntheticSyntax)
    /\ \A i \in DOMAIN none_ret : ~(none_ret[i].arena = r.arena /\ none_ret[i].id = r.id)

\* C3: every call of collect_expr_opt, collect_block_opt or collect_pat_opt on
\* an absent child allocates a Missing node under an id that no earlier
\* allocation got, with the synthetic marker as backward entry, and leaves
\* both forward maps as they were; no two such calls return the same id.
AbsentChildFresh ==
    [][Len(none_ret') > Len(none_ret) =>
        LET r == none_ret'[Len(none_ret')]
        IN  /\ Len(none_ret') = Len(none_ret) + 1
            /\ expr_map' = expr_map
            /\ pat_map' = pat_map
            /\ IF r.arena = "expr"
               THEN FreshMissing(r, exprs, exprs', expr_map_back') /\ pats' = pats
               ELSE FreshMissing(r, pats, pats', pat_map_back') /\ exprs' = exprs]_vars

\* a finished lowering that met an absent expression twice and an absent pattern
AbsentChildFreshWitness ==
    /\ status = "done"
    /\ \E i, j \in DOMAIN none_ret :
            i # j /\ none_ret[i].arena = "expr" /\ none_ret[j].arena = "expr"
    /\ \E i \in DOMAIN none_ret : none_ret[i].arena = "pat"

\* the syntax nodes that are the child of node n in position slot
ChildIn(n, slot) == {m \in DOMAIN ast : ast[m].parent = n /\ ast[m].slot = slot}

\* the ids that lowering the absent child of node n in position slot returned
AbsentIn(n, slot) ==
    {none_ret[i].id : i \in {j \in DOMAIN none_ret :
                                none_ret[j].parent = n /\ none_ret[j].slot = slot}}

\* the id that lowering the child of node n in position slot returned, be the
\* child present or absent
Lowered(n, slot) ==
    IF ChildIn(n, slot) # {}
    THEN ret[CHOOSE m \in ChildIn(n, slot) : TRUE][1]
    ELSE CHOOSE id \in AbsentIn(n, slot) : TRUE

\* the syntax nodes of a kind and variant whose lowering has returned
Returned(kind, variants) ==
    {n \in DOMAIN ast : ast[n].kind = kind /\ ast[n].v \in variants /\ ret[n] # <<>>}

\* the node that the lowering of syntax node n returned
ExprOf(n) == ArenaGet(exprs, ret[n][1])

\* C4: an `if let P = E { A } else { B }` lowers to a Match that carries the
\* location of the if expression, over the lowering of E, with two unguarded
\* arms: the lowering of P with the lowering of A, then an arm with the
\* lowering of B or, without else branch, with an empty block with synthetic
\* provenance that this lowering allocated (the last node before the Match).
\* An if without pattern lowers to an If.
IfLetIsMatch ==
    /\ \A n \in Returned("IfExpr", {"let"}) :
        LET id == ret[n][1]
            e == ExprOf(n)
        IN  /\ e.tag = "Match"
            /\ expr_map_back[id] = Ok(ExprSrc(n))
            /\ e.expr = Lowered(n, "match_expr")
            /\ Len(e.arms) = 2
            /\ e.arms[1] = [pat |-> Lowered(n, "pat"), expr |-> Lowered(n, "then_branch"),
                            guard |-> None]
            /\ e.arms[2].guard = None
            /\ IF ChildIn(n, "else_branch") # {}
               THEN e.arms[2].expr = Lowered(n, "else_branch")
               ELSE /\ e.arms[2].expr = id - 1
                    /\ ArenaGet(exprs, id - 1) = [tag |-> "Block", statements |-> <<>>,
                                                  tail |-> None]
                    /\ expr_map_back[id - 1] = Err(SyntheticSyntax)
    /\ \A n \in Returned("IfExpr", {"nocond", "cond"}) : ExprOf(n).tag = "If"

\* an `if let` without else branch and an if without pattern have been lowered
IfLetIsMatchWitness ==
    /\ status = "done"
    /\ \E n \in Returned("IfExpr", {"let"}) : ChildIn(n, "else_branch") = {}
    /\ Returned("IfExpr", {"nocond", "cond"}) # {}

\* the match an `if let` or a `while let` was rewritten to
LetMatches ==
    {ExprOf(n) : n \in Returned("IfExpr", {"let"})}
    \cup {ArenaGet(exprs, ExprOf(n).body) : n \in Returned("WhileExpr", {"let"})}

\* C5: the pattern of the second arm of the match that an `if let` or a
\* `while let` is rewritten to is a wildcard pattern.
CatchAllIsWild == \A e \in LetMatches : ArenaGet(pats, e.arms[2].pat).tag = "Wild"

\* C6: a `while let P = E { A }` lowers to a Loop that carries the location of
\* the while expression and whose body is a Match over the lowering of E with
\* two unguarded arms: the lowering of P with the lowering of A, then an arm
\* whose result is a Break without value.  The Break and the pattern of the
\* second arm have synthetic provenance.  A while without pattern lowers to a
\* While.
WhileLetIsLoop ==
    /\ \A n \in Returned("WhileExpr", {"let"}) :
        LET id == ret[n][1]
            e == ExprOf(n)
            m == ArenaGet(exprs, e.body)
        IN  /\ e.tag = "Loop"
            /\ expr_map_back[id] = Ok(ExprSrc(n))
            /\ m.tag = "Match"
            /\ m.expr = Lowered(n, "match_expr")
            /\ Len(m.arms) = 2
            /\ m.arms[1] = [pat |-> Lowered(n, "pat"), expr |-> Lowered(n, "body"),
                            guard |-> None]
            /\ m.arms[2].guard = None
            /\ ArenaGet(exprs, m.arms[2].expr) = [tag |-> "Break", expr |-> None]
            /\ expr_map_back[m.arms[2].expr] = Err(SyntheticSyntax)
            /\ pat_map_back[m.arms[2].pat] = Err(SyntheticSyntax)
    /\ \A n \in Returned("WhileExpr", {"nocond", "cond"}) : ExprOf(n).tag = "While"

\* a `while let` and a while without pattern have been lowered
WhileLetIsLoopWitness ==
    /\ status = "done"
    /\ Returned("WhileExpr", {"let"}) # {}
    /\ Returned("WhileExpr", {"nocond", "cond"}) # {}

\* the forward expression map sends location src to id
ForwardIs(src, id) == src \in DOMAIN expr_map /\ expr_map[src] = id

\* no expression node was allocated for syntax node n
NoNodeOf(n) == \A id \in ArenaIds(exprs) : expr_map_back[id] # Ok(ExprSrc(n))

\* the inner expression of parenthesized expression n, if it has one
InnerOf(n) == ChildIn(n, "inner")

\* C7 as stated: lowering a parenthesized expression allocates no node, returns
\* the id of the lowering of the inner expression, the forward map sends both
\* the location of the parenthesized expression and the location of the inner
\* expression to that id, and the backward entry of the id is the location of
\* the inner expression.  (Stated for the parenthesized expressions that have
\* an inner expression.)
ParenAliasesInner ==
    \A n \in Returned("ParenExpr", {""}) :
        LET id == ret[n][1]
        IN  \A m \in InnerOf(n) :
                /\ NoNodeOf(n)
                /\ id = ret[m][1]
                /\ ForwardIs(ExprSrc(n), id)
                /\ ForwardIs(ExprSrc(m), id)
                /\ expr_map_back[id] = Ok(ExprSrc(m))

\* a macro call that is replaced by the lowering of its expansion
IsExpanded(m) ==
    ast[m].kind = "MacroCall" /\ [file_id |-> ast[m].file_id, value |-> m] \in DOMAIN expansions

\* C7: lowering a parenthesized expression allocates no node, returns the id
\* of the lowering of the inner expression (of a Missing placeholder if there
\* is none), and the forward map sends the location of the parenthesized
\* expression to that id.  When the inner expression is present and is not a
\* macro call replaced by its expansion, the forward map also sends its
\* location to the id; when it is moreover not itself parenthesized, the
\* backward entry of the id is its location.
ParenForwardsInner ==
    \A n \in Returned("ParenExpr", {""}) :
        LET id == ret[n][1]
        IN  /\ NoNodeOf(n)
            /\ id = Lowered(n, "inner")
            /\ ForwardIs(ExprSrc(n), id)
            /\ \A m \in InnerOf(n) :
                    ~IsExpanded(m) =>
                        /\ ForwardIs(ExprSrc(m), id)
                        /\ ast[m].kind # "ParenExpr" => expr_map_back[id] = Ok(ExprSrc(m))

\* a parenthesized expression around a parenthesized expression around an
\* expression that allocates its own node has been lowered
ParenForwardsInnerWitness ==
    /\ status = "done"
    /\ \E n \in Returned("ParenExpr", {""}) : \E m \in InnerOf(n) :
            /\ ast[m].kind = "ParenExpr"
            /\ \E k \in InnerOf(m) : ast[k].kind # "ParenExpr" /\ ~IsExpanded(k)

\* the fields of record literal n, and those that cfg disables
FieldsOf(n) == ChildIn(n, "fields")
DisabledFieldsOf(n) == {m \in FieldsOf(n) : ast[m].v = "disabled"}

\* C8: a field of a record literal that cfg disables has no entry in the
\* fields of the RecordLit node, and no entry of the field map of the source
\* map has the field as its location.
DisabledFieldDropped ==
    \A n \in Returned("RecordLit", {"fields"}) :
        /\ Len(ExprOf(n).fields) = Cardinality(FieldsOf(n) \ DisabledFieldsOf(n))
        /\ \A m \in DisabledFieldsOf(n) : \A k \in DOMAIN field_map : field_map[k] # m

\* the sub-pattern of identifier pattern n as its lowering holds it
SubpatOf(n) == IF ChildIn(n, "subpat") = {} THEN None ELSE <<Lowered(n, "subpat")>>

\* the pattern that the lowering of syntax node n returned
PatOf(n) == ArenaGet(pats, ret[n][1])

\* C9: an identifier pattern with a mutability or by-reference annotation or
\* with a sub-pattern is lowered without a resolution query to a Bind with
\* that annotation and sub-pattern.  Any other identifier pattern is resolved
\* in the value namespace; it is lowered to a Path naming the identifier when
\* the name resolves to a constant, an enum variant, or a tuple-like or
\* unit-like struct, and to an unannotated Bind without sub-pattern otherwise.
BindPatDisambiguated ==
    \A n \in Returned("BindPat", Annotations) :
        IF ast[n].v # Unannotated \/ ChildIn(n, "subpat") # {}
        THEN /\ n \notin resolved
             /\ PatOf(n) = [tag |-> "Bind", name |-> ast[n].name, mode |-> ast[n].v,
                            subpat |-> SubpatOf(n)]
        ELSE /\ n \in resolved
             /\ PatOf(n) =
                    IF CrateDefMap[ast[n].name] \in
                            {"ConstId", "EnumVariantId", "StructId.Tuple", "StructId.Unit"}
                    THEN [tag |-> "Path", path |-> ast[n].name]
                    ELSE [tag |-> "Bind", name |-> ast[n].name, mode |-> Unannotated,
                          subpat |-> None]

\* a Body in which a bare name of a unit-like struct was lowered to a Path and
\* a name of a constant that has a sub-pattern to a Bind
BindPatDisambiguatedWitness ==
    /\ status = "done"
    /\ \E n \in Returned("BindPat", {Unannotated}) :
            ast[n].name = "Unit" /\ PatOf(n).tag = "Path"
    /\ \E n \in Returned("BindPat", {Unannotated}) :
            ast[n].name = "CONST" /\ ChildIn(n, "subpat") # {} /\ PatOf(n).tag = "Bind"

\* C10: the lowering of a record pattern without field list does not abort;
\* it returns a Missing pattern and lower goes on to return its Body.
RecordPatWithoutListDegrades ==
    /\ (\E n \in DOMAIN ast : ast[n].kind = "RecordPat" /\ ast[n].v = "nolist")
            => status # "panicked"
    /\ \A n \in Returned("RecordPat", {"nolist"}) : PatOf(n) = [tag |-> "Missing"]

\* the lowered syntax nodes of the forms that cannot be understood
NotUnderstoodExprs ==
    Returned("MacroCall", {"fail"}) \cup Returned("Label", {""})
    \cup Returned("PrefixExpr", {"noop"}) \cup Returned("RangeExpr", {"noop"})
    \cup Returned("BlockExpr", {"noblock"}) \cup Returned("PathExpr", {"bad"})

NotUnderstoodPats ==
    Returned("BoxPat", {""}) \cup Returned("RangePat", {""}) \cup Returned("MacroPat", {""})
    \cup Returned("LiteralPat", {"nolit"}) \cup Returned("PathPat", {"bad"})

\* C11 as stated: the Missing node emitted for a form that cannot be
\* understood has the synthetic marker as its backward entry.
NotUnderstoodIsSynthetic ==
    /\ \A n \in NotUnderstoodExprs :
            ExprOf(n) = [tag |-> "Missing"] /\ expr_map_back[ret[n][1]] = Err(SyntheticSyntax)
    /\ \A n \in NotUnderstoodPats :
            PatOf(n) = [tag |-> "Missing"] /\ pat_map_back[ret[n][1]] = Err(SyntheticSyntax)

\* C11: the Missing node emitted for a form that cannot be understood has the
\* location of that form as its backward entry, and the forward map sends the
\* location of the form to the node.
NotUnderstoodIsLocated ==
    /\ \A n \in NotUnderstoodExprs :
            /\ ExprOf(n) = [tag |-> "Missing"]
            /\ expr_map_back[ret[n][1]] = Ok(ExprSrc(n))
            /\ ForwardIs(ExprSrc(n), ret[n][1])
    /\ \A n \in NotUnderstoodPats :
            /\ PatOf(n) = [tag |-> "Missing"]
            /\ pat_map_back[ret[n][1]] = Ok(PatSrc(n))
            /\ PatSrc(n) \in DOMAIN pat_map
            /\ pat_map[PatSrc(n)] = ret[n][1]

\* a macro call that does not expand and an unsupported pattern were lowered
NotUnderstoodIsLocatedWitness ==
    /\ status = "done"
    /\ Returned("MacroCall", {"fail"}) # {}
    /\ NotUnderstoodPats # {}

\* the calls on the stack that have entered an expansion and not left it
ActiveExpansions ==
    {i \in 1 .. Len(stack) :
        stack[i].kind = "MacroCall" /\ stack[i].v = "expand" /\ stack[i].pc > 1}

\* the file a syntax node is met in: the file of its parent, or for the
\* expansion of a macro call a file of its own
MetInFileOfParent(m) ==
    LET p == ast[m].parent
    IN  IF p = 0 THEN ast[m].file_id = 0
        ELSE IF IsExpanded(p)
             THEN /\ ast[m].file_id # ast[p].file_id
                  /\ [file_id |-> ast[p].file_id, value |-> p] \in DOMAIN expansions
                  /\ expansions[[file_id |-> ast[p].file_id, value |-> p]] = ast[m].file_id
             ELSE ast[m].file_id = ast[p].file_id

\* C12: when the lowering of a macro call returns, the current file of the
\* expander is the file the call stands in, whether the call expanded or not.
\* The expansions entered and not exited are exactly those of the calls in
\* progress, so enter and exit are strictly nested and an exit restores the
\* mark of the innermost enter; what is lowered after a call is lowered in
\* the file of its parent, and when lower returns no expansion is open.
ExpanderRestored ==
    /\ [](/\ expander.depth = Cardinality(ActiveExpansions)
          /\ \A m \in DOMAIN ast : MetInFileOfParent(m)
          /\ status = "done" => expander.current_file_id = 0)
    /\ [][\A n \in DOMAIN ast :
            (ast[n].kind = "MacroCall" /\ ret[n] = <<>> /\ ret'[n] # <<>>)
                => expander'.current_file_id = ast[n].file_id]_vars

\* an expansion inside an expansion has been lowered and lower has returned
ExpanderRestoredWitness ==
    /\ status = "done"
    /\ \E n, m \in Returned("MacroCall", {"expand"}) : ast[m].parent = n

\* the calls that a macro calling itself was expanded to
SelfCalls == {n \in DOMAIN ast : ast[n].slot = "self"}

\* C13: lowering terminates, also for a body with a call of a macro whose
\* expansion calls the same macro again: lower returns, with a root
\* expression in its arena.
LoweringTerminates == <>(status = "done" /\ body.body_expr \in ArenaIds(exprs))

\* the expansion of a macro that calls itself was followed up to the limit,
\* the call met there was lowered to a Missing placeholder, and lower returned
LoweringTerminatesWitness ==
    /\ status = "done"
    /\ \E n \in Returned("MacroCall", {"rec"}) :
            /\ n \in SelfCalls
            /\ ast[n].file_id = ExpansionLimit
            /\ ExprOf(n) = [tag |-> "Missing"]
            /\ ~IsExpanded(n)

\* the macro calls that are no macro definitions
Invocations == {n \in DOMAIN ast : ast[n].kind = "MacroCall" /\ ast[n].v # "def"}

\* the location of macro call n in the file it stands in
MacroCallSrc(n) == [file_id |-> ast[n].file_id, value |-> n]

\* the syntax node that macro call n expanded to, if it expanded
ExpansionOf(n) == ChildIn(n, "id") \cup ChildIn(n, "self")

\* C14: a macro call that is no definition and expands gets no node of its
\* own, returns the id of the lowering of its expansion and has one entry in
\* the expansion map, from its location in the calling file to the file of
\* the expansion.  One that does not expand has no entry, returns a Missing
\* node allocated for it, and the step that returns it allocates that one
\* node and leaves the expansion map and the expander as they are.
InvocationExpansion ==
    /\ [](/\ DOMAIN expansions \subseteq {MacroCallSrc(n) : n \in Invocations}
          /\ \A n \in Invocations :
                /\ \A m \in ExpansionOf(n) :
                        /\ MacroCallSrc(n) \in DOMAIN expansions
                        /\ expansions[MacroCallSrc(n)] = ast[m].file_id
                        /\ ast[m].file_id # ast[n].file_id
                /\ ret[n] # <<>> =>
                        IF ExpansionOf(n) # {}
                        THEN /\ NoNodeOf(n)
                             /\ \A m \in ExpansionOf(n) : ret[n] = ret[m]
                        ELSE /\ MacroCallSrc(n) \notin DOMAIN expansions
                             /\ ExprOf(n) = [tag |-> "Missing"]
                             /\ expr_map_back[ret[n][1]] = Ok(ExprSrc(n)))
    /\ [][\A n \in Invocations :
            (ret[n] = <<>> /\ ret'[n] # <<>> /\ ExpansionOf(n) = {})
                => /\ expansions' = expansions
                   /\ expander' = expander
                   /\ Len(exprs') = Len(exprs) + 1
                   /\ ret'[n] = <<NextId(exprs)>>]_vars

\* a macro call that expanded and one that did not have been lowered
InvocationExpansionWitness ==
    /\ status = "done"
    /\ \E n \in Invocations : ret[n] # <<>> /\ ExpansionOf(n) # {}
    /\ \E n \in Invocations : ret[n] # <<>> /\ ExpansionOf(n) = {}

\* the macro calls that are macro definitions
MacroDefinitions == {n \in DOMAIN ast : ast[n].kind = "MacroCall" /\ ast[n].v = "def"}

\* C15: the lowering of a macro call that is a macro definition does not
\* enter or exit the expander and leaves the expansion map as it is; it puts
\* the macro under its name into the legacy macros of the item scope of the
\* Body and returns one newly allocated Missing node.
MacroDefinitionRegistered ==
    /\ [](\A n \in MacroDefinitions :
            /\ MacroCallSrc(n) \notin DOMAIN expansions
            /\ ExpansionOf(n) = {}
            /\ ret[n] # <<>> =>
                    /\ ExprOf(n) = [tag |-> "Missing"]
                    /\ ast[n].name \in DOMAIN item_scope.legacy_macros)
    /\ [][\A n \in MacroDefinitions :
            (ret[n] = <<>> /\ ret'[n] # <<>>)
                => /\ expander' = expander
                   /\ expansions' = expansions
                   /\ Len(exprs') = Len(exprs) + 1
                   /\ ret'[n] = <<NextId(exprs)>>
                   /\ ArenaGet(exprs', NextId(exprs)) = [tag |-> "Missing"]
                   /\ ast[n].name \in DOMAIN item_scope'.legacy_macros
                   /\ item_scope'.legacy_macros[ast[n].name] =
                            [kind |-> "Declarative", ast_id |-> MacroCallSrc(n)]
                   /\ \A k \in DOMAIN item_scope.legacy_macros :
                            k # ast[n].name
                                => item_scope'.legacy_macros[k] = item_scope.legacy_macros[k]
                   /\ item_scope'.defs = item_scope.defs
                   /\ item_scope'.visible = item_scope.visible]_vars

\* a macro definition has been lowered inside an expansion
MacroDefinitionRegisteredWitness ==
    /\ status = "done"
    /\ \E n \in MacroDefinitions : ret[n] # <<>> /\ ast[n].file_id # 0

\* the blocks that have a statement list
Blocks == {n \in DOMAIN ast : ast[n].kind = "BlockExpr" /\ ast[n].v = "block"}

\* the direct items, the statements and the tail expression of block b
ItemsOf(b) == {m \in ChildIn(b, "") : ast[m].kind \in ItemKinds}
StatementsOf(b) == ChildIn(b, "statements")
TailOf(b) == ChildIn(b, "tail")

\* the item that is syntax node m has its definition in the item scope
Registered(m) ==
    \E i \in DOMAIN item_scope.defs :
        item_scope.defs[i] = [loc |-> ItemLoc(ast[m].kind),
                              ast_id |-> [file_id |-> ast[m].file_id, value |-> m]]

\* what the closures over the statements S handed back, in source order
RECURSIVE YieldedBy(_)
YieldedBy(S) ==
    IF S = {} THEN <<>>
    ELSE LET m == CHOOSE k \in S : \A j \in S : j <= k
         IN  YieldedBy(S \ {m}) \o ret[m]

\* the syntax nodes below syntax node b
RECURSIVE Under(_)
Under(b) ==
    LET direct == {m \in DOMAIN ast : ast[m].parent = b}
    IN  direct \cup UNION {Under(m) : m \in direct}

\* C16: the items of a block are collected in one step that comes before the
\* lowering of any statement and of the tail of the block, so every item of a
\* block is in the item scope when a macro call below the block expands; the
\* statements are lowered one after the other in source order and stand in
\* that order in the Block node; the tail is lowered after the last statement;
\* the Block node is allocated after all of them.
BlockLoweredInOrder ==
    /\ [](\A b \in Blocks :
            /\ \A m \in ItemsOf(b) : ItemLoc(ast[m].kind) # "continue" => Registered(m)
            /\ \A s, t \in StatementsOf(b) : s < t => ret[s] # <<>>
            /\ \A s \in StatementsOf(b), t \in TailOf(b) : s < t /\ ret[s] # <<>>
            /\ ret[b] # <<>> =>
                    /\ \A m \in StatementsOf(b) \cup TailOf(b) : ret[m] # <<>>
                    /\ ExprOf(b).tag = "Block"
                    /\ ExprOf(b).statements = YieldedBy(StatementsOf(b))
                    /\ ExprOf(b).tail = YieldedBy(TailOf(b))
                    /\ \A m \in Under(b) :
                            ast[m].kind \notin Carriers \cup ItemKinds => ret[m][1] < ret[b][1])
    /\ [][\A b \in Blocks :
            /\ (\E m \in DOMAIN ast' \ DOMAIN ast :
                    ast'[m].parent = b /\ ast'[m].kind \in ItemKinds)
                    => StatementsOf(b) \cup TailOf(b) = {}
            /\ (\E m \in DOMAIN ast' \ DOMAIN ast :
                    ast'[m].parent = b /\ ast'[m].slot = "statements")
                    => TailOf(b) = {}
            /\ (ret[b] = <<>> /\ ret'[b] # <<>>)
                    => ret'[b] = <<NextId(exprs)>> /\ Len(exprs') = Len(exprs) + 1]_vars

\* a block with an item, a let statement and then an expression statement whose
\* macro call expanded, has been lowered
BlockLoweredInOrderWitness ==
    /\ status = "done"
    /\ \E b \in Blocks :
        /\ ret[b] # <<>>
        /\ ItemsOf(b) # {}
        /\ \E s, t \in StatementsOf(b) :
            /\ s < t
            /\ ast[s].kind = "LetStmt" /\ ast[t].kind = "ExprStmt"
            /\ \E m \in ChildIn(t, "expr") : IsExpanded(m)

\* the direct items of blocks met so far, and those of a kind that
\* collect_block_items makes a definition for
ItemNodes == {m \in DOMAIN ast : ast[m].kind \in ItemKinds}
DefiningItems ==
    {m \in ItemNodes : ast[m].kind \in {"FnDef", "TypeAliasDef", "ConstDef", "StaticDef",
                                          "StructDef", "EnumDef", "UnionDef", "TraitDef"}}

\* C17: the definitions of the item scope are those of the direct items of
\* blocks that are a function, type alias, constant, static, structure,
\* enumeration, union or trait, one each; every such item with a name has a
\* name entry with public visibility, whatever visibility it declares; a step
\* that meets only items of the other kinds leaves the item scope as it is; and
\* no step removes an entry of the item scope or changes its visibility.
ItemsRegistered ==
    /\ [](/\ \A m \in ItemNodes : m \in DefiningItems <=> Registered(m)
          /\ Len(item_scope.defs) = Cardinality(DefiningItems)
          /\ \A i \in DOMAIN item_scope.defs :
                   item_scope.defs[i].ast_id.value \in DefiningItems
          /\ \A m \in DefiningItems :
                   ast[m].name # "" =>
                       \E k \in DOMAIN item_scope.visible :
                           k[1] = ast[m].name /\ item_scope.visible[k].vis = "Public"
          /\ \A k \in DOMAIN item_scope.visible :
                   /\ item_scope.visible[k].vis = "Public"
                   /\ item_scope.visible[k].def.ast_id.value \in DefiningItems
                   /\ ast[item_scope.visible[k].def.ast_id.value].name = k[1])
    /\ [][/\ (\A m \in DOMAIN ast' \ DOMAIN ast : m \notin DefiningItems')
               => /\ item_scope'.defs = item_scope.defs
                  /\ item_scope'.visible = item_scope.visible
          /\ Len(item_scope'.defs) >= Len(item_scope.defs)
          /\ SubSeq(item_scope'.defs, 1, Len(item_scope.defs)) = item_scope.defs
          /\ \A k \in DOMAIN item_scope.visible :
                   /\ k \in DOMAIN item_scope'.visible
                   /\ item_scope'.visible[k].vis = item_scope.visible[k].vis
          /\ \A k \in DOMAIN item_scope.legacy_macros :
                   k \in DOMAIN item_scope'.legacy_macros]_vars

\* three blocks have been lowered: one with a private item, one with an item
\* declared `pub` of the same name, and one with an item that is skipped
ItemsRegisteredWitness ==
    /\ status = "done"
    /\ \E m, n \in DefiningItems :
        /\ ast[m].name = ast[n].name /\ ast[m].name # ""
        /\ ast[m].v = "" /\ ast[n].v = "pub"
    /\ \E m \in ItemNodes \ DefiningItems : ast[m].name # ""

\* the calls, method calls, operators, casts, references, indexings, ranges,
\* array repeats, tuples and boxes whose lowering has returned
OperandForm(n) ==
    \/ ast[n].kind \in {"CallExpr", "MethodCallExpr", "BinExpr", "PrefixExpr", "CastExpr",
                        "RefExpr", "IndexExpr", "RangeExpr", "TupleExpr", "BoxExpr"}
    \/ ast[n].kind = "ArrayExpr" /\ ast[n].v = "repeat"

LoweredOperandForms == {n \in DOMAIN ast : OperandForm(n) /\ ret[n] # <<>>}

\* the child positions of a form that hold one expression, and those that hold
\* a list of expressions
Positions(kind) ==
    CASE kind = "CallExpr" -> {"callee"}
      [] kind = "MethodCallExpr" -> {"receiver"}
      [] kind \in {"BinExpr", "RangeExpr"} -> {"lhs", "rhs"}
      [] kind \in {"PrefixExpr", "CastExpr", "RefExpr", "BoxExpr"} -> {"expr"}
      [] kind = "IndexExpr" -> {"base", "index"}
      [] kind = "ArrayExpr" -> {"initializer", "repeat"}
      [] kind = "TupleExpr" -> {}

ListPositions(kind) ==
    CASE kind \in {"CallExpr", "MethodCallExpr"} -> {"args"}
      [] kind = "TupleExpr" -> {"exprs"}
      [] OTHER -> {}

\* the forms that lower to a Missing node: operators without operator token
Operatorless(n) == ast[n].kind \in {"PrefixExpr", "RangeExpr"} /\ ast[n].v = "noop"

\* the node of form n holds in position slot the id that lowering the child
\* in that position returned
Carries(n, slot) ==
    /\ slot \in DOMAIN ExprOf(n)
    /\ ChildIn(n, slot) # {} \/ AbsentIn(n, slot) # {}
    /\ ExprOf(n)[slot] \in {Lowered(n, slot), Some(Lowered(n, slot))}

\* the absent child of form n in position slot got a Missing node without
\* source location
Placeholder(n, slot) ==
    \E id \in AbsentIn(n, slot) :
        /\ ArenaGet(exprs, id) = [tag |-> "Missing"]
        /\ expr_map_back[id] = Err(SyntheticSyntax)

\* C18 as stated: each of these forms lowers to a node that holds the lowered
\* id of every child position, and every absent child position got a Missing
\* placeholder.
EveryPositionCarried ==
    \A n \in LoweredOperandForms :
        \A slot \in Positions(ast[n].kind) :
            /\ Carries(n, slot)
            /\ ChildIn(n, slot) = {} => Placeholder(n, slot)

\* C18: each of these forms allocates one node at its own location, as its last
\* step.  A unary operator or range without operator token lowers to a Missing
\* node that holds no child.  Any other form holds in every list position the
\* lowered ids of the expressions of the list, in order, and in every single
\* position the lowered id of the child, an absent child being a Missing
\* placeholder; except that an absent end of a range is lowered to nothing
\* and the Range node holds no id for it.
OperandsCarried ==
    /\ [](\A n \in LoweredOperandForms :
            /\ expr_map_back[ret[n][1]] = Ok(ExprSrc(n))
            /\ \A id \in ArenaIds(exprs) : expr_map_back[id] = Ok(ExprSrc(n)) => id = ret[n][1]
            /\ IF Operatorless(n)
               THEN ExprOf(n) = [tag |-> "Missing"]
               ELSE /\ ExprOf(n).tag # "Missing"
                    /\ \A slot \in ListPositions(ast[n].kind) :
                            ExprOf(n)[slot] = YieldedBy(ChildIn(n, slot))
                    /\ \A slot \in Positions(ast[n].kind) :
                            IF ast[n].kind = "RangeExpr"
                            THEN /\ AbsentIn(n, slot) = {}
                                 /\ ExprOf(n)[slot] = YieldedBy(ChildIn(n, slot))
                            ELSE /\ Carries(n, slot)
                                 /\ ExprOf(n)[slot] = Lowered(n, slot)
                                 /\ ChildIn(n, slot) = {} => Placeholder(n, slot))
    /\ [][\A n \in DOMAIN ast :
            (OperandForm(n) /\ ret[n] = <<>> /\ ret'[n] # <<>>)
                => /\ Len(exprs') = Len(exprs) + 1
                   /\ ret'[n] = <<NextId(exprs)>>]_vars

\* a call without callee has been lowered whose argument is a unary operator
\* without operator token over a range with an absent end
OperandsCarriedWitness ==
    /\ status = "done"
    /\ \E c, p, r \in LoweredOperandForms :
        /\ ast[c].kind = "CallExpr" /\ ChildIn(c, "callee") = {} /\ p \in ChildIn(c, "args")
        /\ ast[p].kind = "PrefixExpr" /\ ast[p].v = "noop" /\ r \in ChildIn(p, "expr")
        /\ ast[r].kind = "RangeExpr" /\ ast[r].v = "op" /\ ChildIn(r, "lhs") = {}

\* the parenthesized patterns
ParenPats == {n \in DOMAIN ast : ast[n].kind = "ParenPat"}

\* C19: a parenthesized pattern gets no pattern node and no entry of the
\* pattern source maps of its own: its location is no key of the forward map
\* and no value of the backward map, its lowering returns the id that the
\* lowering of its inner pattern returned, and the step that returns leaves
\* the pattern arena and both pattern maps as they are.
ParenPatForwardsInner ==
    /\ [](\A n \in ParenPats :
            /\ PatSrc(n) \notin DOMAIN pat_map
            /\ \A id \in ArenaIds(pats) : pat_map_back[id] # Ok(PatSrc(n))
            /\ ret[n] # <<>> =>
                    /\ ChildIn(n, "inner") # {} \/ AbsentIn(n, "inner") # {}
                    /\ ret[n] = <<Lowered(n, "inner")>>
                    /\ ret[n][1] \in ArenaIds(pats))
    /\ [][\A n \in ParenPats :
            (ret[n] = <<>> /\ ret'[n] # <<>>)
                => /\ pats' = pats
                   /\ pat_map' = pat_map
                   /\ pat_map_back' = pat_map_back]_vars

\* a parenthesized pattern around a parenthesized pattern around an identifier
\* has been lowered
ParenPatForwardsInnerWitness ==
    /\ status = "done"
    /\ \E n, m \in ParenPats :
        /\ m \in ChildIn(n, "inner")
        /\ \E b \in ChildIn(m, "inner") : ast[b].kind = "BindPat"
        /\ ret[n] # <<>>

\* the record literal whose lowering returned expression id r
RecordLitOf(r) == {n \in Returned("RecordLit", {"fields", "nofields"}) : ret[n] = <<r>>}

\* the field of record literal n from which entry i (from 0) of the fields of
\* its node was lowered: the fields that cfg disables give no entry
EntrySourceOf(n, i) ==
    LET enabled == FieldsOf(n) \ DisabledFieldsOf(n)
    IN  {m \in enabled : Cardinality({j \in enabled : j < m}) = i}

\* C20: every entry (r, i) of the field map belongs to a RecordLit node r that
\* has more than i fields, and its location is the record field from which
\* field i of the node was lowered.
FieldMapAligned ==
    \A k \in DOMAIN field_map :
        /\ k[1] \in ArenaIds(exprs)
        /\ ArenaGet(exprs, k[1]).tag = "RecordLit"
        /\ k[2] < Len(ArenaGet(exprs, k[1]).fields)
        /\ \E n \in RecordLitOf(k[1]) : field_map[k] \in EntrySourceOf(n, k[2])

\* C21: the forward map sends the source location in the backward entry of an
\* expression id to that id, and likewise for pattern ids; and no step changes
\* the id of a location that the forward maps already hold.
MapsRoundTrip ==
    /\ [](/\ \A id \in ArenaIds(exprs) :
                /\ id \in DOMAIN expr_map_back
                /\ expr_map_back[id].ok =>
                        /\ expr_map_back[id].src \in DOMAIN expr_map
                        /\ expr_map[expr_map_back[id].src] = id
          /\ \A id \in ArenaIds(pats) :
                /\ id \in DOMAIN pat_map_back
                /\ pat_map_back[id].ok =>
                        /\ pat_map_back[id].src \in DOMAIN pat_map
                        /\ pat_map[pat_map_back[id].src] = id)
    /\ [][/\ \A s \in DOMAIN expr_map : s \in DOMAIN expr_map' /\ expr_map'[s] = expr_map[s]
          /\ \A s \in DOMAIN pat_map : s \in DOMAIN pat_map' /\ pat_map'[s] = pat_map[s]]_vars

\* a parenthesized `if let` with a pattern has been lowered to a Match
MapsRoundTripWitness ==
    /\ status = "done"
    /\ \E p \in Returned("ParenExpr", {""}) :
        \E i \in ChildIn(p, "inner") :
            /\ ast[i].kind = "IfExpr" /\ ast[i].v = "let"
            /\ ExprOf(i).tag = "Match"
            /\ expr_map_back[ret[i][1]] = Ok(ExprSrc(i))
            /\ expr_map[ExprSrc(p)] = ret[i][1]
            /\ \E b \in ChildIn(i, "pat") : pat_map_back[ret[b][1]] = Ok(PatSrc(b))

\* C22: every id that the expression forward map gives for a source location
\* has a source location, not the synthetic marker, as its backward entry.
ForwardValuesLocated ==
    \A s \in DOMAIN expr_map :
        /\ expr_map[s] \in DOMAIN expr_map_back
        /\ expr_map_back[expr_map[s]].ok

\* C23: the ids of each arena are 0, 1, 2, ... in the order of allocation, each
\* with a backward entry; a step allocates at most one node per arena, at the
\* next id, and changes no node that is there; every expression id stored in
\* an expression node and every pattern id stored in a pattern node is an
\* allocated id smaller than the id of the node that stores it.
ChildIdsSmaller ==
    /\ [](/\ DOMAIN expr_map_back = ArenaIds(exprs)
          /\ DOMAIN pat_map_back = ArenaIds(pats)
          /\ \A id \in ArenaIds(exprs) :
                \A c \in ExprsOfExpr(ArenaGet(exprs, id)) : c \in ArenaIds(exprs) /\ c < id
          /\ \A id \in ArenaIds(pats) :
                \A c \in PatsOfPat(ArenaGet(pats, id)) : c \in ArenaIds(pats) /\ c < id)
    /\ [][/\ Len(exprs') \in {Len(exprs), Len(exprs) + 1}
          /\ SubSeq(exprs', 1, Len(exprs)) = exprs
          /\ Len(pats') \in {Len(pats), Len(pats) + 1}
          /\ SubSeq(pats', 1, Len(pats)) = pats
          /\ \A n \in DOMAIN ret :
                (ret[n] = <<>> /\ ret'[n] # <<>> /\ exprs' # exprs /\ ast[n].kind \notin Carriers)
                    => ret'[n] = <<Len(exprs)>>]_vars

\* a `while let` over an identifier pattern with a sub-pattern has been
\* lowered: a Loop over a Match over a Break, and a Bind over a Bind
ChildIdsSmallerWitness ==
    /\ status = "done"
    /\ \E w \in Returned("WhileExpr", {"let"}) :
        /\ ExprOf(w).tag = "Loop"
        /\ ArenaGet(exprs, ExprOf(w).body).tag = "Match"
        /\ \E b \in ChildIn(w, "pat") :
            /\ ArenaGet(pats, ret[b][1]).tag = "Bind"
            /\ ArenaGet(pats, ret[b][1]).subpat # None

\* the self parameter and the parameters of the parameter list, and the body
SelfParams == {n \in DOMAIN ast : ast[n].kind = "SelfParam"}
Params == {n \in DOMAIN ast : ast[n].kind = "Param"}
BodyExprs == ChildIn(0, "body_expr")

\* the syntax nodes of the parameter list and of the body
ParamSide == SelfParams \cup Params \cup UNION {Under(p) : p \in Params}
BodySide == BodyExprs \cup UNION {Under(b) : b \in BodyExprs}

\* the lowering of the body has begun
BodyBegun == BodyExprs # {} \/ AbsentIn(0, "body_expr") # {}

\* C24: the parameters of the Body are the pattern of the self parameter, an
\* unannotated binding `self` located at the self parameter, if and only if the
\* parameter list has one, and then the pattern ids of the parameters that
\* have a pattern, in source order; a parameter without pattern gives no id and
\* no placeholder, and without parameter list there are no parameters.  When
\* the lowering of the body begins the parameters are complete, and every
\* pattern of the parameter list has a smaller id than any pattern of the body.
ParamsInOrder ==
    /\ [](/\ body.params = YieldedBy(SelfParams \cup Params)
          /\ \A s \in SelfParams :
                /\ stack[1].v = "self"
                /\ \A n \in SelfParams \cup Params : s <= n
                /\ ArenaGet(pats, ret[s][1]) =
                        [tag |-> "Bind", name |-> "self", mode |-> Unannotated, subpat |-> None]
                /\ pat_map_back[ret[s][1]] = Ok([file_id |-> 0, value |-> Right(s)])
          /\ (stack[1].v = "self" /\ (stack[1].pc > 1 \/ status = "done")) => SelfParams # {}
          /\ stack[1].v = "none" => SelfParams \cup Params = {}
          /\ \A p \in Params :
                /\ ast[p].v = "nopat" => ret[p] = <<>> /\ Under(p) = {} /\ AbsentIn(p, "pat") = {}
                /\ (ast[p].v = "pat" /\ ret[p] # <<>>)
                        => \E c \in ChildIn(p, "pat") : ret[p] = ret[c]
          /\ BodyBegun =>
                /\ \A p \in Params : ast[p].v = "pat" => ret[p] # <<>>
                /\ \A m \in ParamSide, n \in BodySide : m < n
                /\ \A m \in ParamSide, n \in BodySide :
                        (ast[m].kind \in PatKinds /\ ast[n].kind \in PatKinds /\ ret[n] # <<>>)
                            => ret[m] # <<>> /\ ret[m][1] < ret[n][1])
    /\ [][BodyBegun' => /\ body'.params = body.params
                        /\ BodyBegun \/ pats' = pats]_vars

\* a function with self parameter, a parameter without pattern and a
\* parameter with one, and an `if let` with a pattern as body, has been lowered
ParamsInOrderWitness ==
    /\ status = "done"
    /\ SelfParams # {}
    /\ \E p, q \in Params : p < q /\ ast[p].v = "nopat" /\ ast[q].v = "pat"
    /\ Len(body.params) = 2
    /\ \E n \in BodySide : ast[n].kind \in PatKinds

\* the completed-test events handled so far: on_test_event calls
\* handle_test_result right after the formatter wrote the result
HandledResults == {i \in DOMAIN out : out[i].call = "write_result"}

\* the filtered events handled so far, and the count the last of them announced
Announcements == {i \in DOMAIN out : out[i].call = "write_run_start"}
Announced ==
    IF Announcements = {} THEN 0
    ELSE out[CHOOSE i \in Announcements : \A j \in Announcements : j <= i].arg

\* the step is the end of the run: run_tests returned Ok and the assertion is
\* evaluated
EndOfRun == run = "running" /\ run' \in {"finished", "panicked", "io error at finish"}

Counters == {"passed", "failed", "ignored", "measured"}

\* the counter a result counts for
CounterOf(result) ==
    CASE result = "TrOk" -> "passed"
      [] result = "TrIgnored" -> "ignored"
      [] result = "TrBench" -> "measured"
      [] result \in {"TrFailed", "TrFailedMsg", "TrTimedFail"} -> "failed"

\* C25 as stated: at the end of a run that had a filtered event, the assertion
\* holds exactly when the number of completed-test events handled is the
\* count that the last filtered event announced.
AssertionIffAllCompleted ==
    [][(EndOfRun /\ Announcements # {})
        => ((run' # "panicked") <=> (Cardinality(HandledResults) = Announced))]_vars

\* C25: handling a completed-test event whose result the formatter wrote adds
\* one to the counter of the result, failures with message and timed failures
\* counting as failed, and leaves the other counters, total and filtered_out as
\* they are; so the four counters add up to the number of completed-test
\* events handled, and total is the count of the last filtered event.  The
\* assertion at the end of the run holds exactly when fail_fast is set or the
\* number of completed-test events handled is that count.
CountersMatchResults ==
    /\ [](/\ st.passed + st.failed + st.ignored + st.measured = Cardinality(HandledResults)
          /\ st.total = Announced \/ run = "io error")
    /\ [][/\ Len(out') > Len(out) /\ out'[Len(out')].call = "write_result"
                => LET c == CounterOf(out'[Len(out')].arg.result)
                   IN  /\ st'[c] = st[c] + 1
                       /\ \A d \in Counters \ {c} : st'[d] = st[d]
                       /\ st'.total = st.total
                       /\ st'.filtered_out = st.filtered_out
          /\ run' = "io error" => \A d \in Counters : st'[d] = st[d]
          /\ EndOfRun
                => ((run' # "panicked")
                        <=> (fail_fast \/ Cardinality(HandledResults) = Announced))]_vars

\* a run without fail_fast has finished in which two tests were announced and
\* two completed, a timed failure and a benchmark
CountersMatchResultsWitness ==
    /\ run = "finished"
    /\ ~fail_fast
    /\ st.total = 2
    /\ st.failed = 1 /\ st.measured = 1
    /\ st.time_failures # <<>>
    /\ Cardinality(HandledResults) = 2

====
